---- MODULE Spec2Model ----
(***************************************************************************)
(* sharingan-db: B+ tree over an LRU buffer pool and a paged file, with a  *)
(* write-ahead log replayed on open and a 12-byte metadata sidecar.        *)
(*                                                                         *)
(* A page image is the decoded form of its 4096 bytes: the header fields   *)
(* (ptype, next, parent; num_keys is the length of the slot or entry       *)
(* list), the internal body (left, ents) and the leaf body (recs, in slot  *)
(* order).  Byte sizes are kept: a record takes 4+4+4+len(value) bytes     *)
(* plus a 2-byte slot, an internal entry 12 bytes.  The WAL file is kept   *)
(* byte by byte.                                                           *)
(***************************************************************************)
EXTENDS Integers, Sequences, FiniteSets, TLC

(***************************************************************************)
(* Bounds.  PageSize is 4096 and the engine's pool holds 128 pages in the  *)
(* source; both are scaled down here so that leaf splits, internal splits, *)
(* root promotions and evictions all occur within a handful of inserts.    *)
(***************************************************************************)
PageSize == 52
Capacity == 2
MaxKey == 5
MaxTreeInserts == 5
MaxInserts == 2
MaxLifeKey == 2
MaxOpens == 2
MaxFaults == 1

PageHeaderSize == 16
PageTypeFree == 0
PageTypeInternal == 1
PageTypeLeaf == 2
OpInsert == 1
OpDelete == 2
OpUpdate == 3
TreeOrder == 100

DataSize == PageSize - PageHeaderSize

\* Values are byte strings; BigValue is one that fits in no leaf.
BigValue == [i \in 1..PageSize |-> 9]

(***************************************************************************)
(* Pages and records                                                       *)
(***************************************************************************)
NewPage(pageType) ==
  [ptype |-> pageType, next |-> 0, parent |-> 0, left |-> 0,
   ents |-> <<>>, recs |-> <<>>]

\* The image AllocatePage writes: PageSize zero bytes.
emptyPage == NewPage(PageTypeFree)

NewRecordFromInts(key, value) == [key |-> key, value |-> value]

RecordSize(r) == 4 + 4 + 4 + Len(r.value)

IsLeaf(page) == page.ptype = PageTypeLeaf

RECURSIVE SumSizes(_)
SumSizes(recs) ==
  IF recs = <<>> THEN 0 ELSE RecordSize(Head(recs)) + SumSizes(Tail(recs))

freeSpaceStart(page) == 2 + Len(page.recs) * 2

\* Records are packed downward from the end of the body and never removed
\* one by one, so the lowest slot offset is the body size minus their sizes.
freeSpaceEnd(page) == DataSize - SumSizes(page.recs)

AvailableSpace(page) == freeSpaceEnd(page) - freeSpaceStart(page)

InsertAt(seq, pos, x) ==
  SubSeq(seq, 1, pos) \o <<x>> \o SubSeq(seq, pos + 1, Len(seq))

\* Binary search for the first slot whose key is not below the key
\* (0-based left/right as in the code).
RECURSIVE LeafLowerBound(_, _, _, _)
LeafLowerBound(recs, key, left, right) ==
  IF left < right
  THEN LET mid == (left + right) \div 2
       IN IF recs[mid + 1].key < key
          THEN LeafLowerBound(recs, key, mid + 1, right)
          ELSE LeafLowerBound(recs, key, left, mid)
  ELSE left

\* A findInsertPosition that always answers the end of the slot directory.
Leaf_findInsertPosition_AtEnd(page, rec) == Len(page.recs)

Leaf_findInsertPosition(page, rec) ==
  LeafLowerBound(page.recs, rec.key, 0, Len(page.recs))

\* An InsertRecord that refuses a key the page already holds.
Leaf_InsertRecord_RejectsDuplicate(page, rec) ==
  IF \E i \in 1..Len(page.recs) : page.recs[i].key = rec.key
  THEN [page |-> page, err |-> "duplicate key"]
  ELSE IF AvailableSpace(page) < RecordSize(rec) + 2
  THEN [page |-> page, err |-> "leaf page full"]
  ELSE [page |-> [page EXCEPT !.recs =
                    InsertAt(page.recs, Leaf_findInsertPosition(page, rec), rec)],
        err |-> ""]

\* LeafPage.InsertRecord: [page, err]
Leaf_InsertRecord(page, rec) ==
  IF AvailableSpace(page) < RecordSize(rec) + 2
  THEN [page |-> page, err |-> "leaf page full"]
  ELSE [page |-> [page EXCEPT !.recs =
                    InsertAt(page.recs, Leaf_findInsertPosition(page, rec), rec)],
        err |-> ""]

\* LeafPage.SearchRecord: [found, value]
RECURSIVE SearchRecordLoop(_, _, _, _)
SearchRecordLoop(recs, key, left, right) ==
  IF left < right
  THEN LET mid == (left + right) \div 2
       IN IF recs[mid + 1].key = key
          THEN [found |-> TRUE, value |-> recs[mid + 1].value]
          ELSE IF recs[mid + 1].key < key
               THEN SearchRecordLoop(recs, key, mid + 1, right)
               ELSE SearchRecordLoop(recs, key, left, mid)
  ELSE [found |-> FALSE, value |-> <<>>]

SearchRecord(page, key) == SearchRecordLoop(page.recs, key, 0, Len(page.recs))

\* InternalPage.findInsertPosition: the first index whose key is above key.
RECURSIVE Internal_findFrom(_, _, _)
Internal_findFrom(ents, key, i) ==
  IF i > Len(ents) THEN Len(ents)
  ELSE IF key < ents[i].key THEN i - 1
  ELSE Internal_findFrom(ents, key, i + 1)

Internal_findInsertPosition(page, key) == Internal_findFrom(page.ents, key, 1)

maxEntries == (DataSize - 8) \div 12

\* InternalPage.InsertEntry: [page, err]
InsertEntry(page, key, pageID) ==
  IF Len(page.ents) >= maxEntries
  THEN [page |-> page, err |-> "internal page full"]
  ELSE [page |-> [page EXCEPT !.ents =
                    InsertAt(page.ents, Internal_findInsertPosition(page, key),
                             [key |-> key, pageID |-> pageID])],
        err |-> ""]

\* InternalPage.SearchChild, branch by branch.
RECURSIVE SearchChildLoop(_, _, _)
SearchChildLoop(page, key, i) ==
  LET n == Len(page.ents) IN
  IF i >= n THEN page.left
  ELSE LET k == page.ents[i + 1].key
           ptr == page.ents[i + 1].pageID
       IN IF key < k THEN page.left
          ELSE IF i = n - 1 THEN ptr
          ELSE IF key >= k /\ key < page.ents[i + 2].key THEN ptr
          ELSE SearchChildLoop(page, key, i + 1)

\* A SearchChild that sends a key equal to a separator to the left of it.
SearchChild_LeftOnEqual(page, key) ==
  LET below == {i \in 1..Len(page.ents) : page.ents[i].key < key}
  IN IF below = {} THEN page.left
     ELSE page.ents[CHOOSE i \in below : \A j \in below : j <= i].pageID

SearchChild(page, key) ==
  IF Len(page.ents) = 0 THEN page.left ELSE SearchChildLoop(page, key, 0)

\* The return statement at which SearchChild leaves, branch by branch.
RECURSIVE SearchChildReturn(_, _, _)
SearchChildReturn(page, key, i) ==
  LET n == Len(page.ents) IN
  IF n = 0 THEN "no keys"
  ELSE IF i >= n THEN "after the loop"
  ELSE IF key < page.ents[i + 1].key
  THEN (IF i = 0 THEN "below the first key" ELSE "below a later key")
  ELSE IF i = n - 1 THEN "last key"
  ELSE IF key >= page.ents[i + 1].key /\ key < page.ents[i + 2].key THEN "in range"
  ELSE SearchChildReturn(page, key, i + 1)

(***************************************************************************)
(* FilePager.  An engine state s carries the pager (file, numPages), the   *)
(* buffer pool (cache, most recently used first, and its counters) and the *)
(* tree handle (rootPage, order) with the metadata sidecar it rewrites.    *)
(* Every operation returns the state it leaves and its error ("" = nil).   *)
(***************************************************************************)
RECURSIVE Zeros(_)
Zeros(n) == IF n <= 0 THEN <<>> ELSE <<emptyPage>> \o Zeros(n - 1)

\* WriteAt(data, id * PageSize): a write past the end extends the file,
\* the gap reads as zero bytes.
WriteAt(file, id, data) ==
  IF id + 1 <= Len(file)
  THEN [file EXCEPT ![id + 1] = data]
  ELSE file \o Zeros(id - Len(file)) \o <<data>>

FilePager_ReadPage(s, id) ==
  IF id >= s.numPages
  THEN [s |-> s, data |-> emptyPage, err |-> "page out of bounds"]
  ELSE IF id + 1 > Len(s.file)
  THEN [s |-> s, data |-> emptyPage, err |-> "failed to read page"]
  ELSE [s |-> s, data |-> s.file[id + 1], err |-> ""]

FilePager_WritePage(s, id, data) ==
  [s |-> [s EXCEPT !.file = WriteAt(s.file, id, data)], err |-> ""]

FilePager_AllocatePage(s) ==
  LET pageID == s.numPages
      w == FilePager_WritePage([s EXCEPT !.numPages = pageID + 1], pageID, emptyPage)
  IN [s |-> w.s, id |-> pageID, err |-> ""]

\* The free-page directory as a page: a count and the page ids, held in
\* the data area of a page of type Free (ents, on such a page).
MaxFreePageIDs == (PageSize - PageHeaderSize - 4) \div 8

SerializeToPage(freePageIDs) == [NewPage(PageTypeFree) EXCEPT !.ents = freePageIDs]

\* [freePageIDs, err]
DeserializeFreeList(page) ==
  IF page.ptype # PageTypeFree
  THEN [freePageIDs |-> <<>>, err |-> "invalid page type"]
  ELSE [freePageIDs |-> page.ents, err |-> ""]

\* FreePage: the id pushed on the free list and the directory rewritten at
\* page 0.  A list longer than the page holds makes SerializeToPage slice
\* past the data area: a panic, after the push.
FilePager_FreePage(s, pageID) ==
  IF pageID = 0 THEN [s |-> s, err |-> "cannot free the free list page"]
  ELSE IF pageID >= s.numPages THEN [s |-> s, err |-> "page out of bounds"]
  ELSE IF Len(s.freeList) + 1 > MaxFreePageIDs
  THEN [s |-> [s EXCEPT !.freeList = Append(@, pageID)], err |-> "panic"]
  ELSE FilePager_WritePage([s EXCEPT !.freeList = Append(@, pageID)], 0,
                           SerializeToPage(Append(s.freeList, pageID)))

(***************************************************************************)
(* BufferPool                                                              *)
(***************************************************************************)
CachePos(cache, id) ==
  IF \E i \in 1..Len(cache) : cache[i].pageID = id
  THEN CHOOSE i \in 1..Len(cache) : cache[i].pageID = id
  ELSE 0

removeNode(cache, i) == SubSeq(cache, 1, i - 1) \o SubSeq(cache, i + 1, Len(cache))

addToHead(cache, node) == <<node>> \o cache

\* A moveToHead that leaves the node where it is.
moveToHead_Stays(cache, i) == cache

moveToHead(cache, i) == addToHead(removeNode(cache, i), cache[i])

\* evictLRU: the node before the tail sentinel; a dirty one is written to
\* the pager first (a write error is only logged).
evictLRU(s) ==
  IF Len(s.cache) = 0 THEN s
  ELSE LET lru == s.cache[Len(s.cache)]
           w == IF lru.dirty THEN FilePager_WritePage(s, lru.pageID, lru.data).s ELSE s
       IN [w EXCEPT !.cache = removeNode(s.cache, Len(s.cache)),
                    !.evicts = s.evicts + 1]

\* An addToCache that evicts only once the cache is over its capacity.
addToCache_EvictsLate(s, pageID, data, dirty) ==
  LET e == IF Len(s.cache) > s.capacity THEN evictLRU(s) ELSE s
  IN [e EXCEPT !.cache = addToHead(e.cache,
                  [pageID |-> pageID, data |-> data, dirty |-> dirty])]

addToCache(s, pageID, data, dirty) ==
  LET e == IF Len(s.cache) >= s.capacity THEN evictLRU(s) ELSE s
  IN [e EXCEPT !.cache = addToHead(e.cache,
                  [pageID |-> pageID, data |-> data, dirty |-> dirty])]

BufferPool_ReadPage(s, id) ==
  LET i == CachePos(s.cache, id) IN
  IF i > 0
  THEN [s |-> [s EXCEPT !.hits = s.hits + 1, !.cache = moveToHead(s.cache, i)],
        data |-> s.cache[i].data, err |-> ""]
  ELSE LET m == [s EXCEPT !.misses = s.misses + 1]
           r == FilePager_ReadPage(m, id)
       IN IF r.err # "" THEN [s |-> m, data |-> emptyPage, err |-> r.err]
          ELSE [s |-> addToCache(m, id, r.data, FALSE), data |-> r.data, err |-> ""]

BufferPool_WritePage(s, id, data) ==
  LET i == CachePos(s.cache, id) IN
  IF i > 0
  THEN [s |-> [s EXCEPT !.cache =
                 moveToHead([s.cache EXCEPT ![i].data = data, ![i].dirty = TRUE], i)],
        err |-> ""]
  ELSE [s |-> addToCache([s EXCEPT !.misses = s.misses + 1], id, data, TRUE),
        err |-> ""]

BufferPool_AllocatePage(s) == FilePager_AllocatePage(s)

\* The dirty nodes written to the pager, one after the other.
RECURSIVE WriteDirty(_, _)
WriteDirty(s, i) ==
  IF i > Len(s.cache) THEN s
  ELSE IF s.cache[i].dirty
       THEN WriteDirty(FilePager_WritePage(s, s.cache[i].pageID, s.cache[i].data).s, i + 1)
       ELSE WriteDirty(s, i + 1)

BufferPool_Flush(s) ==
  LET w == WriteDirty(s, 1)
  IN [s |-> [w EXCEPT !.cache = [i \in 1..Len(w.cache) |->
                                    [w.cache[i] EXCEPT !.dirty = FALSE]]],
      err |-> ""]

\* Close writes the dirty pages (leaving the flags) and closes the pager.
BufferPool_Close(s) == [s |-> WriteDirty(s, 1), err |-> ""]

(***************************************************************************)
(* The pool's map and list as the code links them.  A node is a heap       *)
(* object named by a number: 0 is the head sentinel, 1 the tail sentinel,  *)
(* a new node takes the lowest number no live node has, and a node that    *)
(* nothing refers to any more leaves the heap.  l.cache is the map from    *)
(* page id to node, l.node gives each node its pageID, prev and next (-1   *)
(* is nil).                                                                *)
(***************************************************************************)
\* NewBufferPool: an empty map and the two sentinels linked to each other.
NewLinks(capacity) ==
  [capacity |-> IF capacity < 1 THEN 64 ELSE capacity,
   head |-> 0, tail |-> 1,
   cache |-> <<>>,
   node |-> (0 :> [pageID |-> 0, prev |-> -1, next |-> 1])
            @@ (1 :> [pageID |-> 0, prev |-> 0, next |-> -1])]

\* A removeNode that leaves the successor's prev as it was.
Links_removeNode_ForwardOnly(l, n) ==
  [l EXCEPT !.node[l.node[n].prev].next = l.node[n].next]

\* removeNode: node.prev.next = node.next, then node.next.prev = node.prev.
Links_removeNode(l, n) ==
  LET a == [l EXCEPT !.node[l.node[n].prev].next = l.node[n].next]
  IN [a EXCEPT !.node[a.node[n].next].prev = a.node[n].prev]

\* addToHead: the node takes head.next and head as neighbours, then they
\* take the node.
Links_addToHead(l, n) ==
  LET a == [l EXCEPT !.node[n].next = l.node[l.head].next]
      b == [a EXCEPT !.node[n].prev = a.head]
      c == [b EXCEPT !.node[b.node[b.head].next].prev = n]
  IN [c EXCEPT !.node[c.head].next = n]

Links_moveToHead(l, n) == Links_addToHead(Links_removeNode(l, n), n)

\* evictLRU: the node before the tail leaves the list and the map.
Links_evictLRU(l) ==
  LET lru == l.node[l.tail].prev IN
  IF lru = l.head THEN l
  ELSE LET r == Links_removeNode(l, lru)
       IN [r EXCEPT !.cache = [id \in DOMAIN r.cache \ {r.node[lru].pageID} |->
                                 r.cache[id]],
                    !.node = [m \in DOMAIN r.node \ {lru} |-> r.node[m]]]

\* addToCache: room is made when the map is full, a new node is put into
\* the map under pageID and linked in at the head.
Links_addToCache(l, pageID) ==
  LET e == IF Cardinality(DOMAIN l.cache) >= l.capacity THEN Links_evictLRU(l) ELSE l
      n == CHOOSE m \in 2..(Cardinality(DOMAIN e.node) + 1) :
             /\ m \notin DOMAIN e.node
             /\ \A k \in 2..(m - 1) : k \in DOMAIN e.node
  IN Links_addToHead(
       [e EXCEPT !.cache = (pageID :> n) @@ e.cache,
                 !.node = (n :> [pageID |-> pageID, prev |-> -1, next |-> -1]) @@ e.node],
       n)

\* ReadPage and WritePage as far as the map and the list go: a page in the
\* map has its node moved to the head, another one is added unless the
\* pager could not read it.
Links_Access(l, id, failed) ==
  IF id \in DOMAIN l.cache THEN Links_moveToHead(l, l.cache[id])
  ELSE IF failed THEN l
  ELSE Links_addToCache(l, id)

\* The tree's three page helpers, over the buffer pool.
readPageStruct(s, pageID) == BufferPool_ReadPage(s, pageID)

writePageStruct(s, pageID, page) == BufferPool_WritePage(s, pageID, page)

allocatePageWithType(s, pageType) ==
  LET a == BufferPool_AllocatePage(s)
      w == writePageStruct(a.s, a.id, NewPage(pageType))
  IN [s |-> w.s, id |-> a.id, page |-> NewPage(pageType), err |-> ""]

(***************************************************************************)
(* B+ tree.  A panic (NewLeafPage / NewInternalPage over a page of another *)
(* type) is the error "panic"; it unwinds like an error and ends the       *)
(* process at the handler.                                                 *)
(***************************************************************************)
Panic == "panic"

\* SaveMetadata: the sidecar rewritten in full with the handle's fields,
\* unless os.Create fails (metaFails), which leaves the file as it was.
SaveMetadata(s) ==
  IF s.metaFails THEN [s |-> s, err |-> "failed to create metadata file"]
  ELSE [s |-> [s EXCEPT !.meta = [exists |-> TRUE, rootPage |-> s.rootPage,
                                  order |-> s.order]],
        err |-> ""]

\* One pass of the bubble sort: j runs over 0..last-1.
RECURSIVE BubblePass(_, _, _)
BubblePass(records, j, last) ==
  IF j >= last THEN records
  ELSE IF records[j + 1].key > records[j + 2].key
       THEN BubblePass([records EXCEPT ![j + 1] = records[j + 2],
                                       ![j + 2] = records[j + 1]], j + 1, last)
       ELSE BubblePass(records, j + 1, last)

RECURSIVE BubbleOuter(_, _)
BubbleOuter(records, i) ==
  IF i >= Len(records) - 1 THEN records
  ELSE BubbleOuter(BubblePass(records, 0, Len(records) - i - 1), i + 1)

\* A sortRecordsByKey that leaves the records in arrival order.
sortRecordsByKey_Unsorted(records) == records

sortRecordsByKey(records) == BubbleOuter(records, 0)

\* InsertRecord of records[from..to] (1-based) one after the other.
RECURSIVE InsertRecords(_, _, _, _)
InsertRecords(page, records, from, to) ==
  IF from > to THEN [page |-> page, err |-> ""]
  ELSE LET r == Leaf_InsertRecord(page, records[from])
       IN IF r.err # "" THEN r
          ELSE InsertRecords(r.page, records, from + 1, to)

\* An error, or nil, with the state it leaves: [s, err]
Err(s, err) == [s |-> s, err |-> err]

\* What insertIntoLeafWithSplit returns when no page was split.
NoSplit(s, err) == [s |-> s, key |-> 0, newID |-> 0, err |-> err]

\* A splitLeaf that sends up the last key of the left half.
splitLeaf_promote_LeftKey(allRecords, newID, w2) ==
  IF w2.err # "" THEN NoSplit(w2.s, w2.err)
  ELSE [s |-> w2.s, key |-> allRecords[Len(allRecords) \div 2].key,
        newID |-> newID, err |-> ""]

\* splitLeaf, after the new page is written: the first key of the right
\* half goes up.
splitLeaf_promote(allRecords, newID, w2) ==
  IF w2.err # "" THEN NoSplit(w2.s, w2.err)
  ELSE [s |-> w2.s, key |-> allRecords[Len(allRecords) \div 2 + 1].key,
        newID |-> newID, err |-> ""]

\* splitLeaf, after the old page is written: the new page is written.
splitLeaf_writeNew(allRecords, newID, newPage, w1) ==
  IF w1.err # "" THEN NoSplit(w1.s, w1.err)
  ELSE splitLeaf_promote(allRecords, newID, writePageStruct(w1.s, newID, newPage))

\* A relinking that leaves the new page's next_page at 0.
splitLeaf_link_DropsNext(oldPageID, oldPage, allRecords, a, l, r) ==
  IF l.err # "" THEN NoSplit(a.s, "failed to insert into old leaf")
  ELSE IF r.err # "" THEN NoSplit(a.s, "failed to insert into new leaf")
  ELSE splitLeaf_writeNew(allRecords, a.id,
         [r.page EXCEPT !.parent = oldPage.parent],
         writePageStruct(a.s, oldPageID, [l.page EXCEPT !.next = a.id]))

\* splitLeaf, after both halves are filled: the leaf chain is relinked and
\* the old page written.
splitLeaf_link(oldPageID, oldPage, allRecords, a, l, r) ==
  IF l.err # "" THEN NoSplit(a.s, "failed to insert into old leaf")
  ELSE IF r.err # "" THEN NoSplit(a.s, "failed to insert into new leaf")
  ELSE splitLeaf_writeNew(allRecords, a.id,
         [r.page EXCEPT !.next = oldPage.next, !.parent = oldPage.parent],
         writePageStruct(a.s, oldPageID, [l.page EXCEPT !.next = a.id]))

\* splitLeaf, after the allocation a of the new leaf: the old page, emptied,
\* gets the first half and the new page the rest.
splitLeaf_fill(oldPageID, oldPage, allRecords, a) ==
  IF a.err # "" THEN NoSplit(a.s, a.err)
  ELSE splitLeaf_link(oldPageID, oldPage, allRecords, a,
         InsertRecords([oldPage EXCEPT !.recs = <<>>], allRecords,
                       1, Len(allRecords) \div 2),
         InsertRecords(a.page, allRecords,
                       Len(allRecords) \div 2 + 1, Len(allRecords)))

\* splitLeaf: [s, key, newID, err]
splitLeaf(s, oldPageID, oldPage, newRecord) ==
  splitLeaf_fill(oldPageID, oldPage,
                 sortRecordsByKey(Append(oldPage.recs, newRecord)),
                 allocatePageWithType(s, PageTypeLeaf))

\* insertIntoLeafWithSplit, after InsertRecord returned i.
insertIntoLeafWithSplit_put(s, pageID, page, record, i) ==
  IF i.err = ""
  THEN LET w == writePageStruct(s, pageID, i.page)
       IN NoSplit(w.s, w.err)
  ELSE splitLeaf(s, pageID, page, record)

\* insertIntoLeafWithSplit: [s, key, newID, err]; newID = 0 when no split.
insertIntoLeafWithSplit(s, pageID, page, record) ==
  IF page.ptype # PageTypeLeaf
  THEN NoSplit(s, Panic)
  ELSE insertIntoLeafWithSplit_put(s, pageID, page, record,
                                   Leaf_InsertRecord(page, record))

\* A child written back with the parent field it had.
setParent_write_Keeps(childID, parentID, r) ==
  IF r.err # "" THEN Err(r.s, r.err)
  ELSE writePageStruct(r.s, childID, r.data)

\* A child read, given its parent and written back, as createNewRoot and
\* insertIntoParent do it: [s, err]
setParent_write(childID, parentID, r) ==
  IF r.err # "" THEN Err(r.s, r.err)
  ELSE writePageStruct(r.s, childID, [r.data EXCEPT !.parent = parentID])

setParent(s, childID, parentID) ==
  setParent_write(childID, parentID, readPageStruct(s, childID))

\* createNewRoot, after the root page is written: the handle and the
\* sidecar take the new root; an error of SaveMetadata is printed as a
\* warning and createNewRoot returns nil.
createNewRoot_save(a, wn) ==
  IF wn.err # "" THEN wn
  ELSE [s |-> SaveMetadata([wn.s EXCEPT !.rootPage = a.id]).s, err |-> ""]

\* createNewRoot, after the right child is updated: the root page written.
createNewRoot_write(a, e, pr) ==
  IF pr.err # "" THEN pr
  ELSE createNewRoot_save(a, writePageStruct(pr.s, a.id, e.page))

\* createNewRoot, after the left child is updated.
createNewRoot_right(rightChildID, a, e, pl) ==
  IF pl.err # "" THEN pl
  ELSE createNewRoot_write(a, e, setParent(pl.s, rightChildID, a.id))

\* createNewRoot, after the entry is put into the new page.
createNewRoot_left(leftChildID, rightChildID, a, e) ==
  IF e.err # "" THEN Err(a.s, e.err)
  ELSE createNewRoot_right(rightChildID, a, e, setParent(a.s, leftChildID, a.id))

\* createNewRoot, after the allocation a of the new root.
createNewRoot_entry(leftChildID, key, rightChildID, a) ==
  IF a.err # "" THEN Err(a.s, a.err)
  ELSE createNewRoot_left(leftChildID, rightChildID, a,
         InsertEntry([a.page EXCEPT !.left = leftChildID], key, rightChildID))

\* createNewRoot: [s, err]
createNewRoot(s, leftChildID, key, rightChildID) ==
  createNewRoot_entry(leftChildID, key, rightChildID,
                      allocatePageWithType(s, PageTypeInternal))

\* The new entry put before the first entry with a larger key.
RECURSIVE InsertSorted(_, _, _)
InsertSorted(entries, new, i) ==
  IF i > Len(entries) THEN Append(entries, new)
  ELSE IF new.key < entries[i].key THEN InsertAt(entries, i - 1, new)
  ELSE InsertSorted(entries, new, i + 1)

\* InsertEntry of entries[from..to] (1-based) one after the other.
RECURSIVE InsertEntries(_, _, _, _)
InsertEntries(page, entries, from, to) ==
  IF from > to THEN [page |-> page, err |-> ""]
  ELSE LET r == InsertEntry(page, entries[from].key, entries[from].pageID)
       IN IF r.err # "" THEN r
          ELSE InsertEntries(r.page, entries, from + 1, to)

\* splitInternal's child updates: each child that can be read gets the new
\* parent and is written back; read and write errors are dropped.
RECURSIVE UpdateChildren(_, _, _, _)
UpdateChildren(s, entries, i, newPageID) ==
  IF i > Len(entries) THEN s
  ELSE LET r == readPageStruct(s, entries[i].pageID)
       IN IF r.err # "" THEN UpdateChildren(r.s, entries, i + 1, newPageID)
          ELSE UpdateChildren(
                 writePageStruct(r.s, entries[i].pageID,
                                 [r.data EXCEPT !.parent = newPageID]).s,
                 entries, i + 1, newPageID)

RECURSIVE insertIntoParent(_, _, _, _)

\* splitInternal, after the new page is written: the middle key goes up.
splitInternal_up(oldPageID, middle, a, w2) ==
  IF w2.err # "" THEN w2
  ELSE insertIntoParent(w2.s, oldPageID, middle.key, a.id)

\* splitInternal, after the old page is written.
splitInternal_writeNew(oldPageID, middle, a, newPage, w1) ==
  IF w1.err # "" THEN w1
  ELSE splitInternal_up(oldPageID, middle, a, writePageStruct(w1.s, a.id, newPage))

\* splitInternal, after both halves are filled: the children that moved get
\* the new parent, then the old page is written.
splitInternal_children(oldPageID, oldPage, entries, a, l, r) ==
  IF l.err # "" THEN Err(a.s, "failed to insert into old internal")
  ELSE IF r.err # "" THEN Err(a.s, "failed to insert into new internal")
  ELSE splitInternal_writeNew(oldPageID, entries[Len(entries) \div 2 + 1], a,
         [r.page EXCEPT !.parent = oldPage.parent],
         writePageStruct(
           UpdateChildren(a.s, SubSeq(entries, Len(entries) \div 2 + 1, Len(entries)),
                          1, a.id),
           oldPageID, l.page))

\* A split that copies the middle entry into the new page as leaf splits do.
splitInternal_fill_CopiesUp(oldPageID, oldPage, entries, a) ==
  IF a.err # "" THEN Err(a.s, a.err)
  ELSE splitInternal_children(oldPageID, oldPage, entries, a,
         InsertEntries([oldPage EXCEPT !.ents = <<>>], entries,
                       1, Len(entries) \div 2),
         InsertEntries([a.page EXCEPT !.left = entries[Len(entries) \div 2 + 1].pageID],
                       entries, Len(entries) \div 2 + 1, Len(entries)))

\* splitInternal, after the allocation a of the new page: the old page,
\* emptied, keeps the entries before the middle one; the new page takes the
\* middle entry's child as leftmost pointer and the entries after it.
splitInternal_fill(oldPageID, oldPage, entries, a) ==
  IF a.err # "" THEN Err(a.s, a.err)
  ELSE splitInternal_children(oldPageID, oldPage, entries, a,
         InsertEntries([oldPage EXCEPT !.ents = <<>>], entries,
                       1, Len(entries) \div 2),
         InsertEntries([a.page EXCEPT !.left = entries[Len(entries) \div 2 + 1].pageID],
                       entries, Len(entries) \div 2 + 2, Len(entries)))

\* splitInternal: [s, err]
splitInternal(s, oldPageID, oldPage, newKey, newChildID) ==
  splitInternal_fill(oldPageID, oldPage,
                     InsertSorted(oldPage.ents,
                                  [key |-> newKey, pageID |-> newChildID], 1),
                     allocatePageWithType(s, PageTypeInternal))

\* insertIntoParent, after the right child is updated: the parent written.
insertIntoParent_write(parentID, e, wc) ==
  IF wc.err # "" THEN wc
  ELSE writePageStruct(wc.s, parentID, e.page)

\* A full parent is not split: a new root is put above it, with the new
\* child beside it.
insertIntoParent_entry_RootAbove(parentID, key, rightChildID, pp, e) ==
  IF e.err = ""
  THEN insertIntoParent_write(parentID, e, setParent(pp.s, rightChildID, parentID))
  ELSE createNewRoot(pp.s, parentID, key, rightChildID)

\* insertIntoParent, after InsertEntry on the parent returned e.
insertIntoParent_entry(parentID, key, rightChildID, pp, e) ==
  IF e.err = ""
  THEN insertIntoParent_write(parentID, e, setParent(pp.s, rightChildID, parentID))
  ELSE splitInternal(pp.s, parentID, pp.data, key, rightChildID)

\* insertIntoParent, after the parent page is read.
insertIntoParent_parent(parentID, key, rightChildID, pp) ==
  IF pp.err # "" THEN Err(pp.s, pp.err)
  ELSE IF pp.data.ptype # PageTypeInternal THEN Err(pp.s, Panic)
  ELSE insertIntoParent_entry(parentID, key, rightChildID, pp,
                              InsertEntry(pp.data, key, rightChildID))

\* insertIntoParent, after the left child is read.
insertIntoParent_child(leftChildID, key, rightChildID, lc) ==
  IF lc.err # "" THEN Err(lc.s, lc.err)
  ELSE IF lc.data.parent = 0
  THEN createNewRoot(lc.s, leftChildID, key, rightChildID)
  ELSE insertIntoParent_parent(lc.data.parent, key, rightChildID,
                               readPageStruct(lc.s, lc.data.parent))

\* insertIntoParent: [s, err]
insertIntoParent(s, leftChildID, key, rightChildID) ==
  insertIntoParent_child(leftChildID, key, rightChildID,
                         readPageStruct(s, leftChildID))

\* findLeafPage: [s, id, err].  The descent reads one page per level; fuel
\* is the number of pages of the file plus one, and running out of it means
\* the loop of the code does not end.
Diverges == "does not terminate"

RECURSIVE findLeafLoop(_, _, _, _)
findLeafLoop(s, key, currentPageID, fuel) ==
  IF fuel = 0 THEN [s |-> s, id |-> 0, err |-> Diverges]
  ELSE LET r == readPageStruct(s, currentPageID)
       IN IF r.err # "" THEN [s |-> r.s, id |-> 0, err |-> r.err]
          ELSE IF IsLeaf(r.data) THEN [s |-> r.s, id |-> currentPageID, err |-> ""]
          ELSE IF r.data.ptype # PageTypeInternal
          THEN [s |-> r.s, id |-> 0, err |-> Panic]
          ELSE findLeafLoop(r.s, key, SearchChild(r.data, key), fuel - 1)

findLeafPage(s, key) == findLeafLoop(s, key, s.rootPage, Len(s.file) + 1)

\* What Search returns when it finds nothing.
Missing(s, err) == [s |-> s, value |-> <<>>, found |-> FALSE, err |-> err]

\* Search, after the leaf page is read.
Search_leaf(key, r) ==
  IF r.err # "" THEN Missing(r.s, r.err)
  ELSE IF r.data.ptype # PageTypeLeaf THEN Missing(r.s, Panic)
  ELSE LET rec == SearchRecord(r.data, key)
       IN [s |-> r.s, value |-> rec.value, found |-> rec.found, err |-> ""]

\* Search, after the descent f.
Search_find(key, f) ==
  IF f.err # "" THEN Missing(f.s, f.err)
  ELSE Search_leaf(key, readPageStruct(f.s, f.id))

\* Search: [s, value, found, err]
Search(s, key) == Search_find(key, findLeafPage(s, key))

\* findLeftmostLeaf: [s, id, err]
RECURSIVE leftmostLoop(_, _, _)
leftmostLoop(s, currentPageID, fuel) ==
  IF fuel = 0 THEN [s |-> s, id |-> 0, err |-> Diverges]
  ELSE LET r == readPageStruct(s, currentPageID)
       IN IF r.err # "" THEN [s |-> r.s, id |-> 0, err |-> r.err]
          ELSE IF IsLeaf(r.data) THEN [s |-> r.s, id |-> currentPageID, err |-> ""]
          ELSE IF r.data.ptype # PageTypeInternal
          THEN [s |-> r.s, id |-> 0, err |-> Panic]
          ELSE leftmostLoop(r.s, r.data.left, fuel - 1)

findLeftmostLeaf(s) == leftmostLoop(s, s.rootPage, Len(s.file) + 1)

KeysOf(recs) == [i \in 1..Len(recs) |-> recs[i].key]

\* The next_page walk of InOrderTraversal: [s, keys, last, err]; last is the
\* leaf whose next_page ended the walk.
RECURSIVE chainLoop(_, _, _, _, _)
chainLoop(s, currentPageID, keys, last, fuel) ==
  IF currentPageID = 0 THEN [s |-> s, keys |-> keys, last |-> last, err |-> ""]
  ELSE IF fuel = 0 THEN [s |-> s, keys |-> keys, last |-> last, err |-> Diverges]
  ELSE LET r == readPageStruct(s, currentPageID)
       IN IF r.err # "" THEN [s |-> r.s, keys |-> <<>>, last |-> last, err |-> r.err]
          ELSE IF r.data.ptype # PageTypeLeaf
          THEN [s |-> r.s, keys |-> <<>>, last |-> last, err |-> Panic]
          ELSE chainLoop(r.s, r.data.next, keys \o KeysOf(r.data.recs),
                         currentPageID, fuel - 1)

\* InOrderTraversal: [s, keys, last, err]
InOrderTraversal(s) ==
  LET f == findLeftmostLeaf(s)
  IN IF f.err # "" THEN [s |-> f.s, keys |-> <<>>, last |-> 0, err |-> f.err]
     ELSE chainLoop(f.s, f.id, <<>>, 0, Len(s.file) + 1)

\* insertNonLeafRoot, after the insert i into the leaf.
insertNonLeafRoot_up(leafID, i) ==
  IF i.err # "" THEN Err(i.s, i.err)
  ELSE IF i.newID # 0 THEN insertIntoParent(i.s, leafID, i.key, i.newID)
  ELSE Err(i.s, "")

\* insertNonLeafRoot, after the leaf page is read.
insertNonLeafRoot_leaf(leafID, record, lp) ==
  IF lp.err # "" THEN Err(lp.s, lp.err)
  ELSE insertNonLeafRoot_up(leafID,
                            insertIntoLeafWithSplit(lp.s, leafID, lp.data, record))

\* insertNonLeafRoot, after the descent f.
insertNonLeafRoot_find(record, f) ==
  IF f.err # "" THEN Err(f.s, f.err)
  ELSE insertNonLeafRoot_leaf(f.id, record, readPageStruct(f.s, f.id))

\* insertNonLeafRoot: [s, err]
insertNonLeafRoot(s, key, record) ==
  insertNonLeafRoot_find(record, findLeafPage(s, key))

\* insertWithoutWAL on a root leaf, after the insert i into it.
insertWithoutWAL_split(rootPageID, i) ==
  IF i.err # "" THEN Err(i.s, i.err)
  ELSE IF i.newID # 0 THEN createNewRoot(i.s, rootPageID, i.key, i.newID)
  ELSE Err(i.s, "")

\* insertWithoutWAL, after the root page is read.
insertWithoutWAL_root(rootPageID, record, rp) ==
  IF rp.err # "" THEN Err(rp.s, rp.err)
  ELSE IF IsLeaf(rp.data)
  THEN insertWithoutWAL_split(rootPageID,
         insertIntoLeafWithSplit(rp.s, rootPageID, rp.data, record))
  ELSE insertNonLeafRoot(rp.s, record.key, record)

\* insertWithoutWAL, which is also the body of Insert after the append:
\* [s, err]
insertWithoutWAL(s, record) ==
  insertWithoutWAL_root(s.rootPage, record, readPageStruct(s, s.rootPage))

(***************************************************************************)
(* Write-ahead log.  The file is a sequence of bytes.                      *)
(***************************************************************************)
\* binary.LittleEndian.PutUint32
PutUint32(n) ==
  <<n % 256, (n \div 256) % 256, (n \div 65536) % 256, (n \div 16777216) % 256>>

\* binary.LittleEndian.Uint32
Uint32(b) == b[1] + 256 * b[2] + 65536 * b[3] + 16777216 * b[4]

serializeEntry(entry) ==
  <<entry.op>> \o PutUint32(entry.key) \o PutUint32(Len(entry.value)) \o entry.value

\* A readEntry that takes any short read for the end of the file.
readEntry_ShortIsEOF(bytes, pos) ==
  LET left == Len(bytes) - pos
      header == SubSeq(bytes, pos + 1, pos + 9)
      valueSize == Uint32(SubSeq(header, 6, 9))
      none == [op |-> 0, key |-> 0, value |-> <<>>]
  IN IF left < 9 THEN [entry |-> none, next |-> pos, err |-> "EOF"]
     ELSE IF left - 9 < valueSize THEN [entry |-> none, next |-> pos, err |-> "EOF"]
     ELSE [entry |-> [op |-> header[1], key |-> Uint32(SubSeq(header, 2, 5)),
                      value |-> SubSeq(bytes, pos + 10, pos + 9 + valueSize)],
           next |-> pos + 9 + valueSize, err |-> ""]

\* readEntry at byte offset pos (0-based): [entry, next, err]; err is "EOF"
\* only when no header byte is left.
readEntry(bytes, pos) ==
  LET left == Len(bytes) - pos
      header == SubSeq(bytes, pos + 1, pos + 9)
      valueSize == Uint32(SubSeq(header, 6, 9))
      none == [op |-> 0, key |-> 0, value |-> <<>>]
  IN IF left = 0 THEN [entry |-> none, next |-> pos, err |-> "EOF"]
     ELSE IF left < 9 THEN [entry |-> none, next |-> pos, err |-> "unexpected EOF"]
     ELSE IF left - 9 < valueSize
     THEN [entry |-> none, next |-> pos, err |-> "failed to read value"]
     ELSE [entry |-> [op |-> header[1], key |-> Uint32(SubSeq(header, 2, 5)),
                      value |-> SubSeq(bytes, pos + 10, pos + 9 + valueSize)],
           next |-> pos + 9 + valueSize, err |-> ""]

\* ReadAll: [entries, err]
RECURSIVE ReadAllFrom(_, _, _)
ReadAllFrom(bytes, pos, entries) ==
  LET r == readEntry(bytes, pos)
  IN IF r.err = "EOF" THEN [entries |-> entries, err |-> ""]
     ELSE IF r.err # "" THEN [entries |-> <<>>, err |-> "failed to read WAL entry"]
     ELSE ReadAllFrom(bytes, r.next, Append(entries, r.entry))

ReadAll(bytes) == ReadAllFrom(bytes, 0, <<>>)

RECURSIVE replayEntries(_, _, _)

\* replayWAL's loop, after insertWithoutWAL of entries[i] returned r.
replayEntries_next(entries, i, r) ==
  IF r.err = Panic THEN Err(r.s, Panic)
  ELSE IF r.err # "" THEN Err(r.s, "failed to replay insert")
  ELSE replayEntries(r.s, entries, i + 1)

\* replayWAL's loop over entries[i..]: [s, err], stopping at the first
\* entry that cannot be applied.
replayEntries(s, entries, i) ==
  IF i > Len(entries) THEN Err(s, "")
  ELSE IF entries[i].op = OpInsert
  THEN replayEntries_next(entries, i,
         insertWithoutWAL(s, NewRecordFromInts(entries[i].key, entries[i].value)))
  ELSE Err(s, "unsupported WAL operation")

\* A Truncate that leaves the file as it is.
Truncate_Keeps(bytes) == bytes

\* Truncate: the file cut to zero bytes.
Truncate(bytes) == <<>>

\* A replay that truncates the WAL whether or not every entry was applied.
replayWAL_truncate_Always(bytes, r) ==
  [s |-> r.s, wal |-> Truncate(bytes), truncated |-> TRUE, err |-> r.err]

\* replayWAL, after the loop returned r: the WAL is truncated on success.
replayWAL_truncate(bytes, r) ==
  IF r.err # ""
  THEN [s |-> r.s, wal |-> bytes, truncated |-> FALSE, err |-> r.err]
  ELSE [s |-> r.s, wal |-> Truncate(bytes), truncated |-> TRUE, err |-> ""]

\* replayWAL, after ReadAll returned ra.
replayWAL_entries(s, bytes, ra) ==
  IF ra.err # ""
  THEN [s |-> s, wal |-> bytes, truncated |-> FALSE, err |-> "failed to read WAL"]
  ELSE IF Len(ra.entries) = 0
  THEN [s |-> s, wal |-> bytes, truncated |-> FALSE, err |-> ""]
  ELSE replayWAL_truncate(bytes, replayEntries(s, ra.entries, 1))

\* replayWAL: [s, wal, truncated, err]; wal is the WAL file it leaves.
replayWAL(s, bytes) == replayWAL_entries(s, bytes, ReadAll(bytes))

\* LoadBPTree: the handle over rootPageID, then the replay.
LoadBPTree(s, rootPageID, treeOrder, bytes) ==
  replayWAL([s EXCEPT !.rootPage = rootPageID, !.order = treeOrder], bytes)

\* NewBPTree, after the root leaf is written again: the handle and the
\* sidecar take it.
NewBPTree_save(treeOrder, a, w) ==
  IF w.err # "" THEN w
  ELSE SaveMetadata([w.s EXCEPT !.rootPage = a.id, !.order = treeOrder])

\* NewBPTree, after the allocation a of the root leaf.
NewBPTree_root(treeOrder, a) ==
  IF a.err # "" THEN Err(a.s, a.err)
  ELSE NewBPTree_save(treeOrder, a, writePageStruct(a.s, a.id, a.page))

\* NewBPTree: [s, err]; a fresh root leaf, written twice, and the sidecar.
NewBPTree(s, treeOrder) ==
  NewBPTree_root(treeOrder, allocatePageWithType(s, PageTypeLeaf))

\* NewFilePager: [file, numPages, freeList, err].  An empty file gets page
\* 0, the empty free-page directory; otherwise page 0 must decode as one.
NewFilePager(bytes) ==
  IF Len(bytes) = 0
  THEN [file |-> <<SerializeToPage(<<>>)>>, numPages |-> 1, freeList |-> <<>>,
        err |-> ""]
  ELSE [file |-> bytes, numPages |-> Len(bytes),
        freeList |-> DeserializeFreeList(bytes[1]).freePageIDs,
        err |-> DeserializeFreeList(bytes[1]).err]

\* NewBufferPool over a pager: an empty cache.
NewBufferPool(pager, cap) ==
  [file |-> pager.file, numPages |-> pager.numPages, freeList |-> pager.freeList,
   capacity |-> IF cap < 1 THEN 64 ELSE cap,
   cache |-> <<>>, hits |-> 0, misses |-> 0, evicts |-> 0,
   rootPage |-> 0, order |-> 0,
   meta |-> [exists |-> FALSE, rootPage |-> 0, order |-> 0], metaFails |-> FALSE]

(***************************************************************************)
(* The engine as a state machine.                                          *)
(*   durable:  file (the pager file), walFile / walExists, meta (sidecar)  *)
(*   volatile: status, numPages, cache, rootPage, order, syncs, stats      *)
(*   control:  pc / pending (an Insert between its WAL append and its tree *)
(*             update), lastOp (what the last handler returned)            *)
(*   history:  logged (inserts whose WAL append returned nil), acked       *)
(*             (inserts that returned nil), both since the files exist;    *)
(*             opened (how the current handle was obtained) and puts (the  *)
(*             Insert calls made on it); nopens and nfaults (failed        *)
(*             appends, oversized values, foreign log entries) count       *)
(*             towards the bounds.                                         *)
(* The pool's hit/miss/eviction counters feed nothing but GetStats; the    *)
(* engine actions leave stats alone so that the counters do not separate   *)
(* otherwise equal states.                                                 *)
(*   wal:      a WAL object on its own file, used apart from the engine:   *)
(*             the file's bytes, the handle's position and sync counter,   *)
(*             the entries appended since the last truncation, and what    *)
(*             the last call returned.                                     *)
(*   thr:      the goroutines calling into one pool or one tree            *)
(*             concurrently, with their positions and locals.              *)
(*   pool:     a buffer pool over a pager (bp) next to a second pager      *)
(*             (ref) that receives the same calls without a cache, with    *)
(*             what each returned to the last call.                        *)
(*   ipage:    an internal page used on its own, as the storage tests use  *)
(*             one: its image, the calls made on it and what the last      *)
(*             SearchChild returned and from which return statement.       *)
(***************************************************************************)
VARIABLES file, walFile, walExists, meta, status, numPages, cache, rootPage,
          order, syncs, stats, wal, pool, thr, ipage, pc, pending, lastOp, acked, logged,
          opened,
          puts, nopens, nfaults

vars == <<file, walFile, walExists, meta, status, numPages, cache, rootPage,
          order, syncs, stats, wal, pool, thr, ipage, pc, pending, lastOp, acked, logged,
          opened,
          puts, nopens, nfaults>>

NoMeta == [exists |-> FALSE, rootPage |-> 0, order |-> 0]

\* What a call on the WAL object or on the pool returned.
Returned(op, err) == [op |-> op, id |-> 0, data |-> <<>>, err |-> err]

\* No WAL file yet and no WAL object.
NoWAL ==
  [file |-> <<>>, exists |-> FALSE, open |-> FALSE, flagAppend |-> FALSE,
   pos |-> 0, syncs |-> 0,
   appended |-> <<>>, clean |-> TRUE, failed |-> FALSE, truncated |-> FALSE,
   napp |-> 0, nfail |-> 0, nnew |-> 0, ret |-> Returned("none", "")]

\* No pool yet.
NoPool ==
  [made |-> FALSE, cap |-> 0, bp |-> <<>>, ref |-> <<>>, written |-> <<>>,
   ncalls |-> 0, nrw |-> 0, used |-> <<>>, links |-> <<>>,
   ret |-> Returned("none", ""), refret |-> Returned("none", "")]
NoRecord == [key |-> 0, value |-> <<>>]

\* The goroutines that call into one pool or one tree, none of them in a
\* call: where each stands (pc), the locals it holds (pageID of
\* AllocatePage; record, and rootPage as the page Insert read), the page
\* ids its AllocatePage calls returned, and whether a call ever began while
\* another goroutine was inside one.
Threads == {1, 2}

NoThreads ==
  [th |-> [t \in Threads |->
             [pc |-> "idle", pageID |-> 0, record |-> NoRecord,
              rootPage |-> emptyPage, rets |-> <<>>]],
   overlap |-> FALSE]

\* An internal page fresh from NewPage, no call made on it.
NoIPage ==
  [page |-> NewPage(PageTypeInternal), ncalls |-> 0, op |-> "none", key |-> 0,
   id |-> 0, stmt |-> "none", err |-> ""]

\* What a handler returned.  The reads (Get, Keys) record only that a read
\* ran and its error; their results are the operators Search and
\* InOrderTraversal over the state.
\* An open also records how the process before it ended (after) and how
\* many WAL entries it found (replayed).
Result(op, key, err) ==
  [op |-> op, key |-> key, err |-> err, replayed |-> 0, after |-> ""]

\* The engine state handed to the operations.
St ==
  [file |-> file, numPages |-> numPages, capacity |-> Capacity, cache |-> cache,
   hits |-> 0, misses |-> 0, evicts |-> 0,
   rootPage |-> rootPage, order |-> order, meta |-> meta, metaFails |-> FALSE]

\* The value a caller stores under a key ("value-<k>" in the tests).
ValueOf(k) == <<k>>

Init ==
  /\ file = <<>>
  /\ walFile = <<>>
  /\ walExists = FALSE
  /\ meta = NoMeta
  /\ status = "down"
  /\ numPages = 0
  /\ cache = <<>>
  /\ rootPage = 0
  /\ order = 0
  /\ syncs = 0
  /\ stats = [hits |-> 0, misses |-> 0, evicts |-> 0]
  /\ wal = NoWAL
  /\ pool = NoPool
  /\ thr = NoThreads
  /\ ipage = NoIPage
  /\ pc = "idle"
  /\ pending = NoRecord
  /\ lastOp = Result("none", 0, "")
  /\ acked = <<>>
  /\ logged = <<>>
  /\ opened = "none"
  /\ puts = 0
  /\ nopens = 0
  /\ nfaults = 0

\* The process is gone: every volatile field is lost, the files stay.
Down ==
  /\ status' = "down"
  /\ numPages' = 0
  /\ cache' = <<>>
  /\ rootPage' = 0
  /\ order' = 0
  /\ syncs' = 0
  /\ pc' = "idle"
  /\ pending' = NoRecord

\* A handle is returned over the state s.
Up(s) ==
  /\ status' = "open"
  /\ file' = s.file
  /\ numPages' = s.numPages
  /\ cache' = s.cache
  /\ rootPage' = s.rootPage
  /\ order' = s.order
  /\ meta' = s.meta
  /\ syncs' = 0
  /\ pc' = "idle"
  /\ pending' = NoRecord

\* createFreshDatabase, and Database.Open on any path: a pager, a pool and
\* NewBPTree (which opens the WAL file, creating it when missing).
createFreshDatabase(op) ==
  \E pg \in {NewFilePager(file)} :
    /\ lastOp' = [Result(op, 0, pg.err) EXCEPT !.after = lastOp.op]
    /\ IF pg.err # ""
       THEN /\ Down
            /\ opened' = "none"
            /\ UNCHANGED <<file, meta, walExists>>
       ELSE /\ Up(NewBPTree([NewBufferPool(pg, Capacity) EXCEPT !.meta = meta],
                            TreeOrder).s)
            /\ opened' = op
            /\ walExists' = TRUE

\* Database.Open(path)
DatabaseOpen ==
  /\ status = "down"
  /\ nopens < MaxOpens
  /\ nopens' = nopens + 1
  /\ puts' = 0
  /\ createFreshDatabase("open")
  /\ UNCHANGED <<walFile, stats, wal, pool, thr, ipage, acked, logged, nfaults>>

\* recoverFromWAL: LoadMetadata, a pager, a pool and LoadBPTree; when the
\* load fails the pool is closed (its dirty pages written) and no handle is
\* returned; a panic ends the process where it stands.
recoverFromWAL ==
  \E pg \in {NewFilePager(file)} :
    IF pg.err # ""
    THEN /\ Down
         /\ opened' = "none"
         /\ lastOp' = [Result("recover", 0, pg.err) EXCEPT !.after = lastOp.op]
         /\ UNCHANGED <<file, meta, walFile>>
    ELSE \E l \in {LoadBPTree([NewBufferPool(pg, Capacity) EXCEPT !.meta = meta],
                              meta.rootPage, meta.order, walFile)} :
           /\ lastOp' = [Result("recover", 0, l.err)
                           EXCEPT !.after = lastOp.op,
                                  !.replayed = Len(ReadAll(walFile).entries)]
           /\ walFile' = l.wal
           /\ IF l.err = Panic
              THEN /\ Down
                   /\ opened' = "none"
                   /\ file' = l.s.file
                   /\ meta' = l.s.meta
              ELSE IF l.err # ""
              THEN /\ Down
                   /\ opened' = "none"
                   /\ file' = BufferPool_Close(l.s).s.file
                   /\ meta' = l.s.meta
              ELSE /\ Up(l.s)
                   /\ opened' = "recover"

\* initDatabase of the shell: a fresh database when the page file is
\* missing, recovery when the WAL and the sidecar both exist.
initDatabase ==
  /\ status = "down"
  /\ nopens < MaxOpens
  /\ nopens' = nopens + 1
  /\ puts' = 0
  /\ IF file = <<>>
     THEN createFreshDatabase("create") /\ UNCHANGED walFile
     ELSE walExists /\ meta.exists /\ recoverFromWAL /\ UNCHANGED walExists
  /\ UNCHANGED <<stats, wal, pool, thr, ipage, acked, logged, nfaults>>

\* How many bytes of an entry a failed Write may leave in the file.
PartialWrites == {0, 4, 9}

\* What a caller may store under a key: its value, or an oversized one.
InputValues(k) == {ValueOf(k), BigValue}

\* WAL.Append of Insert(k, v) returning nil: the entry written and fsynced.
\* The tree update follows as InsertApply.  limit bounds the inserts made
\* since the files exist.
InsertAppend(k, v, limit) ==
  /\ status = "open" /\ pc = "idle"
  /\ Len(logged) + nfaults < limit
  /\ IF v = BigValue
     THEN nfaults < MaxFaults /\ nfaults' = nfaults + 1
     ELSE nfaults' = nfaults
  /\ walFile' = walFile \o serializeEntry([op |-> OpInsert, key |-> k, value |-> v])
  /\ syncs' = syncs + 1
  /\ pc' = "apply"
  /\ pending' = NewRecordFromInts(k, v)
  /\ logged' = Append(logged, pending')
  /\ puts' = puts + 1
  /\ lastOp' = Result("append", k, "")
  /\ UNCHANGED <<file, walExists, meta, status, numPages, cache, rootPage,
                 order, stats, wal, pool, thr, ipage, acked, opened, nopens>>

\* An Insert that ignores the error of WAL.Append and goes on to put the
\* record into the tree.
InsertAppendFails_Ignored(k, n) ==
  /\ status = "open" /\ pc = "idle"
  /\ Len(logged) + nfaults < MaxInserts /\ nfaults < MaxFaults
  /\ nfaults' = nfaults + 1
  /\ puts' = puts + 1
  /\ \E data \in {serializeEntry([op |-> OpInsert, key |-> k, value |-> ValueOf(k)])} :
       /\ n \in PartialWrites \cup {Len(data)}
       /\ walFile' = walFile \o SubSeq(data, 1, n)
  /\ \E r \in {insertWithoutWAL(St, NewRecordFromInts(k, ValueOf(k)))} :
       /\ r.err # Panic
       /\ file' = r.s.file
       /\ meta' = r.s.meta
       /\ numPages' = r.s.numPages
       /\ cache' = r.s.cache
       /\ rootPage' = r.s.rootPage
       /\ lastOp' = Result("insert", k, r.err)
  /\ UNCHANGED <<walExists, status, order, syncs, stats, wal, pool, thr, ipage, pc, pending, acked,
                 logged, opened, nopens>>

\* WAL.Append failing inside Insert(k, v): Write fails after n bytes, or
\* Write succeeds (n is the whole entry) and Sync fails.  Insert returns
\* the error without touching the tree.
InsertAppendFails(k, n) ==
  /\ status = "open" /\ pc = "idle"
  /\ Len(logged) + nfaults < MaxInserts /\ nfaults < MaxFaults
  /\ nfaults' = nfaults + 1
  /\ puts' = puts + 1
  /\ LET data == serializeEntry([op |-> OpInsert, key |-> k, value |-> ValueOf(k)])
     IN /\ n \in PartialWrites \cup {Len(data)}
        /\ walFile' = walFile \o SubSeq(data, 1, n)
        /\ lastOp' = Result("insert", k,
                            IF n = Len(data) THEN "failed to sync WAL"
                            ELSE "failed to write WAL entry")
  /\ UNCHANGED <<file, walExists, meta, status, numPages, cache, rootPage,
                 order, syncs, stats, wal, pool, thr, ipage, pc, pending, acked, logged, opened, nopens>>

\* The rest of Insert: the record put into the tree.
InsertApply ==
  /\ status = "open" /\ pc = "apply"
  /\ \E r \in {insertWithoutWAL(St, pending)} :
       /\ file' = r.s.file
       /\ meta' = r.s.meta
       /\ lastOp' = Result("insert", pending.key, r.err)
       /\ IF r.err = Panic
          THEN Down
          ELSE /\ numPages' = r.s.numPages
               /\ cache' = r.s.cache
               /\ rootPage' = r.s.rootPage
               /\ pc' = "idle"
               /\ pending' = NoRecord
               /\ UNCHANGED <<status, order, syncs>>
       /\ acked' = IF r.err = "" THEN Append(acked, pending) ELSE acked
  /\ UNCHANGED <<walFile, walExists, stats, wal, pool, thr, ipage, logged, opened, puts, nopens, nfaults>>

\* The rest of Insert at a time when the sidecar cannot be created.
InsertApplySidecarFails ==
  /\ status = "open" /\ pc = "apply"
  /\ \E r \in {insertWithoutWAL([St EXCEPT !.metaFails = TRUE], pending)} :
       /\ file' = r.s.file
       /\ meta' = r.s.meta
       /\ lastOp' = Result("insert", pending.key, r.err)
       /\ IF r.err = Panic
          THEN Down
          ELSE /\ numPages' = r.s.numPages
               /\ cache' = r.s.cache
               /\ rootPage' = r.s.rootPage
               /\ pc' = "idle"
               /\ pending' = NoRecord
               /\ UNCHANGED <<status, order, syncs>>
       /\ acked' = IF r.err = "" THEN Append(acked, pending) ELSE acked
  /\ UNCHANGED <<walFile, walExists, stats, wal, pool, thr, ipage, logged, opened, puts, nopens,
                 nfaults>>

\* Database.Get(k)
Get(k) ==
  /\ status = "open" /\ pc = "idle"
  /\ \E r \in {Search(St, k)} :
        /\ file' = r.s.file
        /\ lastOp' = Result("read", 0, r.err)
        /\ IF r.err = Panic
           THEN Down
           ELSE /\ cache' = r.s.cache
                /\ UNCHANGED <<status, numPages, rootPage, order, syncs, pc, pending>>
  /\ UNCHANGED <<walFile, walExists, meta, stats, wal, pool, thr, ipage, acked, logged, opened, puts,
                 nopens, nfaults>>

\* Database.Keys()
KeysOp ==
  /\ status = "open" /\ pc = "idle"
  /\ \E r \in {InOrderTraversal(St)} :
        /\ file' = r.s.file
        /\ lastOp' = Result("read", 0, r.err)
        /\ IF r.err = Panic
           THEN Down
           ELSE /\ cache' = r.s.cache
                /\ UNCHANGED <<status, numPages, rootPage, order, syncs, pc, pending>>
  /\ UNCHANGED <<walFile, walExists, meta, stats, wal, pool, thr, ipage, acked, logged, opened, puts,
                 nopens, nfaults>>

\* FilePager.Close on a file that is already closed.
FilePager_Close(closed) == IF closed THEN "file already closed" ELSE ""

\* Database.Close: BufferPool.Close (dirty pages written, pager closed),
\* BPTree.Close (WAL synced and closed), then the pager closed once more.
Close ==
  /\ status = "open" /\ pc = "idle"
  /\ file' = BufferPool_Close(St).s.file
  /\ lastOp' = Result("close", 0, FilePager_Close(TRUE))
  /\ Down
  /\ UNCHANGED <<walFile, walExists, meta, stats, wal, pool, thr, ipage, acked, logged, opened, puts,
                 nopens, nfaults>>

\* The process stops: nothing is flushed.
Crash ==
  /\ status = "open"
  /\ nopens < MaxOpens
  /\ Down
  /\ lastOp' = Result("crash", 0, "")
  /\ UNCHANGED <<file, walFile, walExists, meta, stats, wal, pool, thr, ipage, acked, logged, opened,
                 puts, nopens, nfaults>>

\* WAL.Append of an entry with a reserved operation, made through the wal
\* package on the log of an engine that is not running.
AppendReserved(op, k) ==
  /\ status = "down" /\ walExists
  /\ nopens < MaxOpens
  /\ Len(logged) + nfaults < MaxInserts /\ nfaults < MaxFaults
  /\ nfaults' = nfaults + 1
  /\ walFile' = walFile \o serializeEntry([op |-> op, key |-> k, value |-> ValueOf(k)])
  /\ lastOp' = [Result("foreign", k, "") EXCEPT !.after = lastOp.op]
  /\ UNCHANGED <<file, walExists, meta, status, numPages, cache, rootPage,
                 order, syncs, stats, wal, pool, thr, ipage, pc, pending, acked, logged, opened, puts,
                 nopens>>

LifeKeys == 1..MaxLifeKey

\* The key of an Insert whose append fails; the bytes a failed append leaves
\* in the WAL differ from key to key in the key field alone.
FaultKeys == {1}

Next ==
  \/ DatabaseOpen
  \/ initDatabase
  \/ \E k \in LifeKeys : \E v \in InputValues(k) : InsertAppend(k, v, MaxInserts)
  \/ \E k \in FaultKeys : \E n \in 0..(9 + PageSize) : InsertAppendFails(k, n)
  \/ InsertApply
  \/ \E k \in LifeKeys : Get(k)
  \/ KeysOp
  \/ Close
  \/ Crash
  \/ \E op \in {OpDelete, OpUpdate} : AppendReserved(op, 1)

Spec == Init /\ [][Next]_vars

\* The tree alone: one engine created on fresh files, each key inserted at
\* most once, no stop.
Keys == 1..MaxKey

NextTree ==
  \/ (file = <<>> /\ initDatabase)
  \/ \E k \in Keys :
       /\ \A i \in 1..Len(logged) : logged[i].key # k
       /\ InsertAppend(k, ValueOf(k), MaxTreeInserts)
  \/ InsertApply
  \/ \E k \in Keys : Get(k)
  \/ KeysOp

SpecTree == Init /\ [][NextTree]_vars

\* The tree alone, with a sidecar that may be unwritable during an Insert.
MaxSidecarInserts == 4

NextSidecar ==
  \/ (file = <<>> /\ initDatabase)
  \/ \E k \in Keys :
       /\ \A i \in 1..Len(logged) : logged[i].key # k
       /\ InsertAppend(k, ValueOf(k), MaxSidecarInserts)
  \/ InsertApply
  \/ InsertApplySidecarFails

SpecSidecar == Init /\ [][NextSidecar]_vars

\* One engine created on fresh files, each key inserted at most once, then
\* stopped without Close and opened again.
MaxRecoverInserts == 4

NextRecover ==
  \/ initDatabase
  \/ \E k \in Keys :
       /\ \A i \in 1..Len(logged) : logged[i].key # k
       /\ InsertAppend(k, ValueOf(k), MaxRecoverInserts)
  \/ InsertApply
  \/ Crash

SpecRecover == Init /\ [][NextRecover]_vars

(***************************************************************************)
(* The WAL object on its own, used as the wal package's tests use it:      *)
(* NewWAL, Append, ReadAll, Truncate, Close on one file.  wal carries the  *)
(* file (file, exists), the object (open, flagAppend, pos, syncs) and what *)
(* the properties refer to: appended (the entries whose Append returned    *)
(* nil since the file was last empty), clean (no failed Append has left    *)
(* bytes in the file), failed (an Append on this object returned an        *)
(* error), truncated (a Truncate has returned nil) and ret (what the last  *)
(* call returned).                                                         *)
(***************************************************************************)
MaxWalAppends == 3
MaxWalFaults == 1
MaxWalOpens == 2

engineVars == <<file, walFile, walExists, meta, status, numPages, cache,
                rootPage, order, syncs, stats, pc, pending, lastOp, acked,
                logged, opened, puts, nopens, nfaults>>

\* The entries a caller appends: every operation, a key of two bytes,
\* values of no, one and two bytes.
WalInputs ==
  {[op |-> OpInsert, key |-> 1, value |-> <<7>>],
   [op |-> OpInsert, key |-> 300, value |-> <<7, 8>>],
   [op |-> OpDelete, key |-> 2, value |-> <<>>],
   [op |-> OpUpdate, key |-> 1, value |-> <<9>>]}

\* How many bytes of an entry are in the file when Append fails: none, half
\* a header, a header, a header and part of the value, or all of them.
WrittenBeforeFailure == {0, 4, 9, 10, 11}

\* File.Write of data at offset pos; with O_APPEND every write goes to the
\* end of the file: [file, pos]
File_Write(bytes, pos, flagAppend, data) ==
  IF flagAppend
  THEN [file |-> bytes \o data, pos |-> Len(bytes) + Len(data)]
  ELSE [file |-> SubSeq(bytes, 1, pos) \o data
                   \o SubSeq(bytes, pos + Len(data) + 1, Len(bytes)),
        pos |-> pos + Len(data)]

\* A NewWAL that opens the file without O_APPEND.
NewWAL_NoAppendFlag(w) ==
  [w EXCEPT !.exists = TRUE, !.open = TRUE, !.flagAppend = FALSE,
            !.pos = 0, !.syncs = 0]

\* NewWAL: the file opened (created when missing) read-write with O_APPEND,
\* the offset at 0, the sync counter at 0.
NewWAL(w) ==
  [w EXCEPT !.exists = TRUE, !.open = TRUE, !.flagAppend = TRUE,
            !.pos = 0, !.syncs = 0]

WAL_New ==
  /\ ~wal.open /\ wal.nnew < MaxWalOpens
  /\ wal' = [NewWAL(wal) EXCEPT !.failed = FALSE, !.nnew = @ + 1,
                                !.ret = Returned("new", "")]
  /\ UNCHANGED <<engineVars, pool, thr, ipage>>

\* Append returning nil: the entry written and fsynced.
WAL_Append(entry) ==
  /\ wal.open /\ wal.napp < MaxWalAppends
  /\ \E wr \in {File_Write(wal.file, wal.pos, wal.flagAppend, serializeEntry(entry))} :
       wal' = [wal EXCEPT !.file = wr.file, !.pos = wr.pos, !.syncs = @ + 1,
                          !.appended = Append(@, entry), !.napp = @ + 1,
                          !.ret = Returned("append", "")]
  /\ UNCHANGED <<engineVars, pool, thr, ipage>>

\* Append failing: Write fails after n bytes, or Write succeeds (n is the
\* whole entry) and Sync fails.
WAL_AppendFails(entry, n) ==
  /\ wal.open /\ wal.napp < MaxWalAppends /\ wal.nfail < MaxWalFaults
  /\ \E data \in {serializeEntry(entry)} :
       /\ n \in 0..Len(data)
       /\ \E wr \in {File_Write(wal.file, wal.pos, wal.flagAppend, SubSeq(data, 1, n))} :
            wal' = [wal EXCEPT !.file = wr.file, !.pos = wr.pos,
                               !.clean = @ /\ n = 0, !.failed = TRUE,
                               !.napp = @ + 1, !.nfail = @ + 1,
                               !.ret = Returned("append",
                                         IF n = Len(data) THEN "failed to sync WAL"
                                         ELSE "failed to write WAL entry")]
  /\ UNCHANGED <<engineVars, pool, thr, ipage>>

\* ReadAll: the offset ends at the end of the file, whether every entry was
\* read (Seek(0, 2)) or a short read used up the rest of it.
WAL_ReadAll ==
  /\ wal.open
  /\ \E r \in {ReadAll(wal.file)} :
       wal' = [wal EXCEPT !.pos = Len(wal.file),
                          !.ret = [op |-> "read", id |-> 0, data |-> r.entries,
                                   err |-> r.err]]
  /\ UNCHANGED <<engineVars, pool, thr, ipage>>

\* Truncate: the file cut to zero, the offset and the sync counter at 0.
WAL_Truncate ==
  /\ wal.open
  /\ wal' = [wal EXCEPT !.file = Truncate(@), !.pos = 0, !.syncs = 0,
                        !.appended = <<>>, !.clean = TRUE, !.truncated = TRUE,
                        !.ret = Returned("truncate", "")]
  /\ UNCHANGED <<engineVars, pool, thr, ipage>>

\* Close: the file synced and closed.
WAL_Close ==
  /\ wal.open
  /\ wal' = [wal EXCEPT !.open = FALSE, !.ret = Returned("close", "")]
  /\ UNCHANGED <<engineVars, pool, thr, ipage>>

NextWAL ==
  \/ WAL_New
  \/ \E entry \in WalInputs : WAL_Append(entry)
  \/ \E entry \in WalInputs : \E n \in WrittenBeforeFailure : WAL_AppendFails(entry, n)
  \/ WAL_ReadAll
  \/ WAL_Truncate
  \/ WAL_Close

SpecWAL == Init /\ [][NextWAL]_vars

(***************************************************************************)
(* The buffer pool on its own, used as the storage package's tests use it: *)
(* NewFilePager on a fresh file, NewBufferPool, then AllocatePage,         *)
(* WritePage, ReadPage and Flush through the pool and FreePage on its      *)
(* pager; a panic ends the run.  pool.bp is the pool with its  *)
(* pager; pool.ref is a second pager on a file of its own that receives    *)
(* the same calls directly; written lists the WritePage calls made, nrw    *)
(* counts the ReadPage and WritePage calls, used lists the page ids in the *)
(* order the calls touched them (a hit, or an insertion on a miss), links *)
(* is the pool's map and list pointer by pointer, ret and refret hold what *)
(* the last call returned from each.                                       *)
(***************************************************************************)
MaxPoolCalls == 5

\* The capacities asked of NewBufferPool.
PoolCapacities == {0, 1, Capacity}

\* The page image the n-th call writes: no two calls write the same bytes.
PoolImage(n) == [NewPage(PageTypeLeaf) EXCEPT !.next = n]

\* NewFilePager on an empty file and NewBufferPool of the capacity asked.
Pool_New(cap) ==
  /\ ~pool.made
  /\ \E pg \in {NewFilePager(<<>>)} :
       pool' = [pool EXCEPT !.made = TRUE, !.cap = cap,
                            !.bp = NewBufferPool(pg, cap),
                            !.links = NewLinks(cap),
                            !.ref = [file |-> pg.file, numPages |-> pg.numPages,
                                     freeList |-> pg.freeList],
                            !.ret = Returned("new", pg.err),
                            !.refret = Returned("new", pg.err)]
  /\ UNCHANGED <<engineVars, wal, thr, ipage>>

\* BufferPool.AllocatePage
Pool_Allocate ==
  /\ pool.made /\ pool.ncalls < MaxPoolCalls /\ pool.ret.err # Panic
  /\ \E a \in {BufferPool_AllocatePage(pool.bp)} :
     \E b \in {FilePager_AllocatePage(pool.ref)} :
       pool' = [pool EXCEPT !.bp = a.s, !.ref = b.s, !.ncalls = @ + 1,
                            !.ret = [Returned("allocate", a.err) EXCEPT !.id = a.id],
                            !.refret = [Returned("allocate", b.err) EXCEPT !.id = b.id]]
  /\ UNCHANGED <<engineVars, wal, thr, ipage>>

\* BufferPool.WritePage(id, data)
Pool_Write(id) ==
  /\ pool.made /\ pool.ncalls < MaxPoolCalls /\ pool.ret.err # Panic
  /\ \E data \in {PoolImage(pool.ncalls + 1)} :
     \E w \in {BufferPool_WritePage(pool.bp, id, data)} :
     \E d \in {FilePager_WritePage(pool.ref, id, data)} :
       pool' = [pool EXCEPT !.bp = w.s, !.ref = d.s, !.ncalls = @ + 1,
                            !.nrw = @ + 1, !.used = Append(@, id),
                            !.links = Links_Access(@, id, FALSE),
                            !.written = Append(@, [id |-> id, data |-> data]),
                            !.ret = [Returned("write", w.err) EXCEPT !.id = id],
                            !.refret = [Returned("write", d.err) EXCEPT !.id = id]]
  /\ UNCHANGED <<engineVars, wal, thr, ipage>>

\* BufferPool.ReadPage(id)
Pool_Read(id) ==
  /\ pool.made /\ pool.ncalls < MaxPoolCalls /\ pool.ret.err # Panic
  /\ \E r \in {BufferPool_ReadPage(pool.bp, id)} :
     \E d \in {FilePager_ReadPage(pool.ref, id)} :
       pool' = [pool EXCEPT !.bp = r.s, !.ref = d.s, !.ncalls = @ + 1,
                            !.nrw = @ + 1,
                            !.used = IF r.err = "" THEN Append(@, id) ELSE @,
                            !.links = Links_Access(@, id, r.err # ""),
                            !.ret = [op |-> "read", id |-> id, data |-> r.data,
                                     err |-> r.err],
                            !.refret = [op |-> "read", id |-> id, data |-> d.data,
                                        err |-> d.err]]
  /\ UNCHANGED <<engineVars, wal, thr, ipage>>

\* FilePager.FreePage(id), on the pager under the pool and on the other.
Pool_Free(id) ==
  /\ pool.made /\ pool.ncalls < MaxPoolCalls /\ pool.ret.err # Panic
  /\ \E f \in {FilePager_FreePage(pool.bp, id)} :
     \E d \in {FilePager_FreePage(pool.ref, id)} :
       pool' = [pool EXCEPT !.bp = f.s, !.ref = d.s, !.ncalls = @ + 1,
                            !.ret = [Returned("free", f.err) EXCEPT !.id = id],
                            !.refret = [Returned("free", d.err) EXCEPT !.id = id]]
  /\ UNCHANGED <<engineVars, wal, thr, ipage>>

\* BufferPool.Flush
Pool_Flush ==
  /\ pool.made /\ pool.ncalls < MaxPoolCalls /\ pool.ret.err # Panic
  /\ \E f \in {BufferPool_Flush(pool.bp)} :
       pool' = [pool EXCEPT !.bp = f.s, !.ncalls = @ + 1,
                            !.ret = Returned("flush", f.err),
                            !.refret = Returned("flush", "")]
  /\ UNCHANGED <<engineVars, wal, thr, ipage>>

\* The page ids a caller passes: the pages of the file and the next one,
\* which no AllocatePage has returned yet.
PoolIDs == IF pool.made THEN 0..pool.bp.numPages ELSE {}

NextPool ==
  \/ \E cap \in PoolCapacities : Pool_New(cap)
  \/ Pool_Allocate
  \/ \E id \in PoolIDs : Pool_Write(id)
  \/ \E id \in PoolIDs : Pool_Read(id)
  \/ Pool_Flush
  \/ \E id \in PoolIDs : Pool_Free(id)

SpecPool == Init /\ [][NextPool]_vars

\* The pool with the calls of BufferPool alone: no FreePage on its pager.
NextPoolIO ==
  \/ \E cap \in PoolCapacities : Pool_New(cap)
  \/ Pool_Allocate
  \/ \E id \in PoolIDs : Pool_Write(id)
  \/ \E id \in PoolIDs : Pool_Read(id)
  \/ Pool_Flush

SpecPoolIO == Init /\ [][NextPoolIO]_vars

(***************************************************************************)
(* AllocatePage called by two goroutines on one pool.  BufferPool's        *)
(* AllocatePage takes no lock and FilePager has none, so the statements of *)
(* FilePager.AllocatePage interleave: pageID := p.numPages, then           *)
(* p.numPages++, then WritePage(pageID, emptyPage) and the return.  The    *)
(* increment is an unsynchronised read-modify-write: it stores one more    *)
(* than the value it loads now, or one more than the value the statement   *)
(* before it loaded, when the build keeps that value in a register.        *)
(***************************************************************************)
MaxAllocs == 2

\* pageID := p.numPages
Alloc_Load(t) ==
  /\ pool.made
  /\ thr.th[t].pc = "idle" /\ Len(thr.th[t].rets) < MaxAllocs
  /\ thr' = [thr EXCEPT !.th[t].pc = "inc",
                        !.th[t].pageID = pool.bp.numPages,
                        !.overlap = @ \/ \E u \in Threads \ {t} : thr.th[u].pc # "idle"]
  /\ UNCHANGED <<engineVars, wal, pool, ipage>>

\* p.numPages++
Alloc_Inc(t, reload) ==
  /\ thr.th[t].pc = "inc"
  /\ pool' = [pool EXCEPT !.bp.numPages =
                 IF reload THEN @ + 1 ELSE thr.th[t].pageID + 1]
  /\ thr' = [thr EXCEPT !.th[t].pc = "write"]
  /\ UNCHANGED <<engineVars, wal, ipage>>

\* WritePage(pageID, emptyPage) and return pageID, nil
Alloc_Write(t) ==
  /\ thr.th[t].pc = "write"
  /\ \E w \in {FilePager_WritePage(pool.bp, thr.th[t].pageID, emptyPage)} :
       pool' = [pool EXCEPT !.bp = w.s]
  /\ thr' = [thr EXCEPT !.th[t].pc = "idle",
                        !.th[t].rets = Append(@, thr.th[t].pageID)]
  /\ UNCHANGED <<engineVars, wal, ipage>>

NextAlloc ==
  \/ \E cap \in PoolCapacities : Pool_New(cap)
  \/ \E t \in Threads : Alloc_Load(t)
  \/ \E t \in Threads : \E reload \in BOOLEAN : Alloc_Inc(t, reload)
  \/ \E t \in Threads : Alloc_Write(t)

SpecAlloc == Init /\ [][NextAlloc]_vars

(***************************************************************************)
(* Insert called by two goroutines on one tree, one call each, on a tree   *)
(* that earlier calls (one at a time) have filled.  BPTree holds no lock;  *)
(* WAL.Append and the pool's ReadPage and WritePage each hold their own.   *)
(* An Insert is taken in three steps: the WAL append; the read of the root *)
(* page, which hands the goroutine its own copy; and the rest of the call, *)
(* which works from that copy.                                             *)
(***************************************************************************)
MaxRaceSetup == 3

\* tree.wal.Append(walEntry) and NewRecordFromInts(key, value)
Race_Append(t, k) ==
  /\ status = "open" /\ pc = "idle"
  /\ thr.th[t].pc = "idle"
  /\ \A i \in 1..Len(logged) : logged[i].key # k
  /\ walFile' = walFile \o serializeEntry([op |-> OpInsert, key |-> k, value |-> ValueOf(k)])
  /\ syncs' = syncs + 1
  /\ logged' = Append(logged, NewRecordFromInts(k, ValueOf(k)))
  /\ puts' = puts + 1
  /\ lastOp' = Result("append", k, "")
  /\ thr' = [thr EXCEPT !.th[t].pc = "read",
                        !.th[t].record = NewRecordFromInts(k, ValueOf(k)),
                        !.overlap = @ \/ \E u \in Threads \ {t} :
                                           thr.th[u].pc \in {"read", "apply"}]
  /\ UNCHANGED <<file, walExists, meta, status, numPages, cache, rootPage,
                 order, stats, wal, pool, ipage, pc, pending, acked, opened, nopens, nfaults>>

\* rootPage, err := readPageStruct(tree.pager, tree.rootPage)
Race_ReadRoot(t) ==
  /\ status = "open" /\ thr.th[t].pc = "read"
  /\ \E r \in {readPageStruct(St, rootPage)} :
       /\ file' = r.s.file
       /\ cache' = r.s.cache
       /\ lastOp' = Result("read root", thr.th[t].record.key, r.err)
       /\ thr' = [thr EXCEPT !.th[t].pc = IF r.err = "" THEN "apply" ELSE "done",
                             !.th[t].rootPage = r.data]
  /\ UNCHANGED <<walFile, walExists, meta, status, numPages, rootPage, order, syncs,
                 stats, wal, pool, ipage, pc, pending, acked, logged, opened, puts, nopens,
                 nfaults>>

\* The rest of Insert, on the copy of the root page read before.
Race_Finish(t) ==
  /\ status = "open" /\ thr.th[t].pc = "apply"
  /\ \E r \in {insertWithoutWAL_root(rootPage, thr.th[t].record,
                    [s |-> St, data |-> thr.th[t].rootPage, err |-> ""])} :
       /\ file' = r.s.file
       /\ meta' = r.s.meta
       /\ lastOp' = Result("insert", thr.th[t].record.key, r.err)
       /\ IF r.err = Panic
          THEN Down
          ELSE /\ numPages' = r.s.numPages
               /\ cache' = r.s.cache
               /\ rootPage' = r.s.rootPage
               /\ UNCHANGED <<status, order, syncs, pc, pending>>
       /\ acked' = IF r.err = "" THEN Append(acked, thr.th[t].record) ELSE acked
  /\ thr' = [thr EXCEPT !.th[t].pc = "done"]
  /\ UNCHANGED <<walFile, walExists, stats, wal, pool, ipage, logged, opened, puts, nopens,
                 nfaults>>

NextRace ==
  \/ (file = <<>> /\ initDatabase)
  \/ \E k \in Keys :
       /\ \A t \in Threads : thr.th[t].pc = "idle"
       /\ \A i \in 1..Len(logged) : logged[i].key # k
       /\ InsertAppend(k, ValueOf(k), MaxRaceSetup)
  \/ InsertApply
  \/ \E t \in Threads : \E k \in Keys : Race_Append(t, k)
  \/ \E t \in Threads : Race_ReadRoot(t)
  \/ \E t \in Threads : Race_Finish(t)

SpecRace == Init /\ [][NextRace]_vars

(***************************************************************************)
(* An internal page on its own: SetLeftmostPointer, InsertEntry and        *)
(* SearchChild called on one page, as TestInternalPageInsertAndSearch      *)
(* does.                                                                   *)
(***************************************************************************)
MaxPageCalls == 4

MaxPageKey == 3

PageKeys == 1..MaxPageKey

PagePointers == {7, 8}

IPage_SetLeftmostPointer(pageID) ==
  /\ ipage.ncalls < MaxPageCalls
  /\ ipage' = [ipage EXCEPT !.page.left = pageID, !.ncalls = @ + 1,
                            !.op = "setleftmost", !.key = 0, !.id = 0,
                            !.stmt = "none", !.err = ""]
  /\ UNCHANGED <<engineVars, wal, pool, thr>>

IPage_InsertEntry(key, pageID) ==
  /\ ipage.ncalls < MaxPageCalls
  /\ \E r \in {InsertEntry(ipage.page, key, pageID)} :
       ipage' = [ipage EXCEPT !.page = r.page, !.ncalls = @ + 1,
                              !.op = "insert", !.key = key, !.id = 0,
                              !.stmt = "none", !.err = r.err]
  /\ UNCHANGED <<engineVars, wal, pool, thr>>

IPage_SearchChild(key) ==
  /\ ipage.ncalls < MaxPageCalls
  /\ ipage' = [ipage EXCEPT !.ncalls = @ + 1,
                            !.op = "search", !.key = key,
                            !.id = SearchChild(ipage.page, key),
                            !.stmt = SearchChildReturn(ipage.page, key, 0),
                            !.err = ""]
  /\ UNCHANGED <<engineVars, wal, pool, thr>>

NextIPage ==
  \/ \E p \in PagePointers : IPage_SetLeftmostPointer(p)
  \/ \E k \in PageKeys : \E p \in PagePointers : IPage_InsertEntry(k, p)
  \/ \E k \in {0} \cup PageKeys \cup {MaxPageKey + 1} : IPage_SearchChild(k)

SpecIPage == Init /\ [][NextIPage]_vars

(***************************************************************************)
(* Reference notions used by the properties.                               *)
(***************************************************************************)
KeySet(recs) == {recs[i].key : i \in 1..Len(recs)}

SeqSet(seq) == {seq[i] : i \in 1..Len(seq)}

DistinctKeys(recs) ==
  \A i \in 1..Len(recs) : \A j \in 1..Len(recs) : recs[i].key = recs[j].key => i = j

\* The ascending list of a finite set of numbers.
RECURSIVE SortedSeq(_)
SortedSeq(S) ==
  IF S = {} THEN <<>>
  ELSE LET m == CHOOSE x \in S : \A y \in S : x <= y
       IN <<m>> \o SortedSeq(S \ {m})

\* Search(key) on the tree s answers (value, found = true) without error.
FoundIn(s, key, value) ==
  LET r == Search(s, key) IN r.err = "" /\ r.found /\ r.value = value

\* Get(key) answers (value, found = true) without error.
Found(key, value) == FoundIn(St, key, value)

\* Get(key) answers ("", found = false) without error.
NotFound(key) ==
  LET r == Search(St, key) IN r.err = "" /\ ~r.found /\ r.value = <<>>

\* The image of a page as the tree reads it: the cached copy if there is
\* one, the pager's otherwise.
PageNow(id) ==
  IF CachePos(cache, id) > 0 THEN cache[CachePos(cache, id)].data
  ELSE file[id + 1]

IsSuffix(x, y) ==
  Len(x) <= Len(y) /\ SubSeq(y, Len(y) - Len(x) + 1, Len(y)) = x

\* Every insert made so far returned nil.
AllAcked == nfaults = 0 /\ acked = logged

(***************************************************************************)
(* C1: crash durability.  After any inserts that all returned nil on a     *)
(* tree over the buffer pool, a stop without Close or Flush and a reopen   *)
(* from the same files, Get(k) = (v, true) for every applied (k, v).       *)
(***************************************************************************)
C1_CrashDurability ==
  (lastOp.op = "recover" /\ lastOp.after = "crash" /\ AllAcked)
    => /\ lastOp.err = ""
       /\ status = "open"
       /\ \A i \in 1..Len(acked) : Found(acked[i].key, acked[i].value)

(***************************************************************************)
(* C2: write-ahead ordering.  Within an Insert the WAL append (write and   *)
(* fsync) is complete before any page, the root or the sidecar changes;    *)
(* and when the append fails, Insert returns an error and none of them     *)
(* has changed.                                                            *)
(***************************************************************************)
TreeChanged ==
  \/ file' # file \/ cache' # cache \/ numPages' # numPages
  \/ rootPage' # rootPage \/ meta' # meta

C2_WriteAhead ==
  [][(status = "open" /\ status' = "open") =>
       /\ (pc = "idle" /\ lastOp'.op = "append") => ~TreeChanged
       /\ (pc = "idle" /\ pc' = "idle" /\ lastOp'.op = "insert")
            => (lastOp'.err # "" /\ ~TreeChanged)
       /\ (pc = "apply" /\ TreeChanged)
            => /\ IsSuffix(serializeEntry([op |-> OpInsert, key |-> pending.key,
                                           value |-> pending.value]), walFile)
               /\ walFile' = walFile
               /\ syncs >= 1]_vars

C2_Witness ==
  /\ status = "open" /\ pc = "idle"
  /\ lastOp.op = "insert" /\ lastOp.err = "failed to sync WAL"
  /\ Len(acked) > 0

(***************************************************************************)
(* C3: exact-prefix recovery.  After a crash and recovery, Get and keys()  *)
(* show exactly the inserts whose WAL append had returned nil, in their    *)
(* order; an insert whose append returned an error is not observable.      *)
(***************************************************************************)
C3_ExactPrefix ==
  (/\ lastOp.op = "recover" /\ lastOp.after = "crash"
   /\ DistinctKeys(logged)
   /\ \A i \in 1..Len(logged) : logged[i].value # BigValue)
    => /\ lastOp.err = ""
       /\ status = "open"
       /\ InOrderTraversal(St).err = ""
       /\ InOrderTraversal(St).keys = SortedSeq(KeySet(logged))
       /\ \A i \in 1..Len(logged) : Found(logged[i].key, logged[i].value)
       /\ \A k \in LifeKeys \ KeySet(logged) : NotFound(k)

(***************************************************************************)
(* C4: point lookup agrees with a reference map.  After any successful     *)
(* inserts of pairwise distinct keys, Search(k) = (v, true, nil) for every *)
(* inserted (k, v) and ("", false, nil) for every other key.               *)
(***************************************************************************)
C4_PointLookup ==
  (status = "open" /\ pc = "idle" /\ opened = "create" /\ DistinctKeys(acked))
    => /\ \A i \in 1..Len(acked) : Found(acked[i].key, acked[i].value)
       /\ \A k \in (0..MaxKey + 1) \ KeySet(acked) : NotFound(k)

\* The root is an internal page over internal pages: an internal split and
\* two root promotions have happened.
C4_Witness ==
  /\ status = "open" /\ pc = "idle" /\ opened = "create"
  /\ Len(acked) >= 5
  /\ PageNow(rootPage).ptype = PageTypeInternal
  /\ PageNow(PageNow(rootPage).left).ptype = PageTypeInternal

(***************************************************************************)
(* C5: ordered scan.  After any successful inserts of pairwise distinct    *)
(* keys, the leftmost descent reaches a leaf and the next_page walk from   *)
(* it lists every inserted key once, ascending, ending at a leaf whose     *)
(* next_page is 0.                                                         *)
(***************************************************************************)
C5_OrderedScan ==
  (status = "open" /\ pc = "idle" /\ opened = "create" /\ DistinctKeys(acked))
    => LET r == InOrderTraversal(St)
       IN /\ findLeftmostLeaf(St).err = ""
          /\ r.err = ""
          /\ r.keys = SortedSeq(KeySet(acked))
          /\ PageNow(r.last).ptype = PageTypeLeaf
          /\ PageNow(r.last).next = 0

\* A scan over at least four chained leaves.
C5_Witness ==
  /\ status = "open" /\ pc = "idle" /\ opened = "create"
  /\ Len(acked) >= 5
  /\ InOrderTraversal(St).last >= 5
  /\ Len(InOrderTraversal(St).keys) >= 5

(***************************************************************************)
(* C6: engine open dispatch.  open(path) on files left by an earlier       *)
(* engine loads the root and the order from the sidecar and opens the      *)
(* existing tree, so the data written earlier is visible through Get.      *)
(***************************************************************************)
C6_OpenDispatch ==
  (lastOp.op = "open" /\ lastOp.after = "close" /\ AllAcked)
    => /\ lastOp.err = ""
       /\ status = "open"
       /\ rootPage = meta.rootPage
       /\ \A i \in 1..Len(acked) : Found(acked[i].key, acked[i].value)

(***************************************************************************)
(* C7: clean shutdown round trip.  After inserts of distinct keys, a clean *)
(* close and a reopen with the persisted root leave every inserted key     *)
(* found with its value and keys() equal to the list before the close.     *)
(***************************************************************************)
C7_CleanRoundTrip ==
  (lastOp.op = "recover" /\ lastOp.after = "close" /\ AllAcked /\ DistinctKeys(acked))
    => /\ lastOp.err = ""
       /\ status = "open"
       /\ \A i \in 1..Len(acked) : Found(acked[i].key, acked[i].value)
       /\ InOrderTraversal(St).err = ""
       /\ InOrderTraversal(St).keys = SortedSeq(KeySet(acked))

(***************************************************************************)
(* C8: replay over persisted state.  When the WAL entries replayed at open *)
(* are inserts whose effect the pages on disk already show, the tree       *)
(* afterwards holds every such key with the same value, and the set of     *)
(* keys of the ordered scan is the one the pages showed before.            *)
(***************************************************************************)
\* The tree as the files alone show it.
OnDisk ==
  [St EXCEPT !.numPages = Len(file), !.cache = <<>>,
             !.rootPage = meta.rootPage, !.order = meta.order]

WalEntries == ReadAll(walFile).entries

\* The step is a recovery whose WAL holds only inserts that the pages on
\* disk already contain.
ReplayOverPersisted ==
  /\ status = "down" /\ meta.exists /\ file # <<>>
  /\ lastOp'.op = "recover" /\ nopens' = nopens + 1
  /\ ReadAll(walFile).err = ""
  /\ WalEntries # <<>>
  /\ \A i \in 1..Len(WalEntries) :
       /\ WalEntries[i].op = OpInsert
       /\ FoundIn(OnDisk, WalEntries[i].key, WalEntries[i].value)
  /\ InOrderTraversal(OnDisk).err = ""

C8_ReplayIdempotent ==
  [][ReplayOverPersisted =>
       LET before == SeqSet(InOrderTraversal(OnDisk).keys)
           entries == WalEntries
       IN /\ lastOp'.err = ""
          /\ status' = "open"
          /\ \A i \in 1..Len(entries) :
               FoundIn(St', entries[i].key, entries[i].value)
          /\ InOrderTraversal(St').err = ""
          /\ SeqSet(InOrderTraversal(St').keys) = before]_vars

\* A recovery after a clean close that replayed inserts of two keys over
\* pages that had them; the doubled records split the root leaf.
C8_Witness ==
  /\ lastOp.op = "recover" /\ lastOp.after = "close" /\ lastOp.err = ""
  /\ lastOp.replayed >= 2
  /\ AllAcked
  /\ status = "open"
  /\ Cardinality(KeySet(acked)) >= 2
  /\ PageNow(rootPage).ptype = PageTypeInternal

(***************************************************************************)
(* C9: truncation after successful replay.  When an open replays every WAL *)
(* entry successfully, on return the WAL file has length 0 and the sync    *)
(* count is 0; with no further Put the WAL is still empty after close.     *)
(***************************************************************************)
C9_TruncateAfterReplay ==
  /\ (lastOp.op = "recover" /\ lastOp.err = "")
       => (status = "open" /\ Len(walFile) = 0 /\ syncs = 0)
  /\ (opened = "recover" /\ puts = 0 /\ lastOp.op \in {"recover", "read", "close"})
       => Len(walFile) = 0

C9_Witness ==
  /\ lastOp.op = "close" /\ opened = "recover" /\ puts = 0
  /\ Len(logged) >= 2
  /\ Len(walFile) = 0

(***************************************************************************)
(* C10: replay failure.  If replay at open meets a WAL entry it cannot     *)
(* apply (a reserved operation, or an insert that returns an error), the   *)
(* open returns an error, no tree handle is returned and the WAL is not    *)
(* truncated.                                                              *)
(***************************************************************************)
ReplayErrors == {"unsupported WAL operation", "failed to replay insert"}

\* An entry replay can never apply: a reserved operation, or a record that
\* fits no leaf.
Inapplicable(e) ==
  \/ e.op # OpInsert
  \/ RecordSize(NewRecordFromInts(e.key, e.value)) + 2 > DataSize - 2

C10_WitnessReserved ==
  /\ lastOp.op = "recover" /\ lastOp.err = "unsupported WAL operation"
  /\ status = "down"

(***************************************************************************)
(* The tree as its pages describe it.                                      *)
(***************************************************************************)
\* The pages of the file except the free-page directory.
PageIDs == IF status = "open" THEN 1..(numPages - 1) ELSE {}

LeafIDs == {id \in PageIDs : PageNow(id).ptype = PageTypeLeaf}

InternalIDs == {id \in PageIDs : PageNow(id).ptype = PageTypeInternal}

\* The pages an internal page points to: P_0 and the child of each entry.
ChildIDs(page) ==
  IF page.ptype = PageTypeInternal
  THEN {page.left} \cup {page.ents[i].pageID : i \in 1..Len(page.ents)}
  ELSE {}

StrictlyIncreasing(keys) ==
  \A i \in 1..(Len(keys) - 1) : keys[i] < keys[i + 1]

RecKeys(page) == [i \in 1..Len(page.recs) |-> page.recs[i].key]

SepKeys(page) == [i \in 1..Len(page.ents) |-> page.ents[i].key]

\* The keys stored under a page, down to depth levels.
RECURSIVE SubtreeKeys(_, _)
SubtreeKeys(id, depth) ==
  IF id \notin PageIDs \/ depth = 0 THEN {}
  ELSE IF PageNow(id).ptype = PageTypeLeaf THEN KeySet(PageNow(id).recs)
  ELSE UNION {SubtreeKeys(c, depth - 1) : c \in ChildIDs(PageNow(id))}

\* The pages reachable from the root.
RECURSIVE Reachable(_, _)
Reachable(ids, depth) ==
  IF depth = 0 THEN ids
  ELSE Reachable(ids \cup UNION {ChildIDs(PageNow(id)) : id \in ids \cap PageIDs},
                 depth - 1)

TreePages == IF status = "open" THEN Reachable({rootPage}, numPages) ELSE {}

(***************************************************************************)
(* C11: leaf order.  In every reachable state after inserts of pairwise    *)
(* distinct keys, the records of every leaf page, in slot order, have      *)
(* strictly increasing keys.                                               *)
(***************************************************************************)
C11_LeafOrder ==
  \A id \in LeafIDs : StrictlyIncreasing(RecKeys(PageNow(id)))

\* Two leaves of two records each after a split, the keys having arrived
\* in descending order.
C11_Witness ==
  /\ pc = "idle" /\ Len(acked) >= 4
  /\ acked[1].key > acked[2].key /\ acked[2].key > acked[3].key
  /\ Cardinality({id \in LeafIDs \cap TreePages : Len(PageNow(id).recs) = 2}) >= 2

(***************************************************************************)
(* C12: separators.  In every reachable state after inserts of pairwise    *)
(* distinct keys, every internal page has strictly increasing separator    *)
(* keys K_1..K_n, the keys under P_0 are below K_1 and the keys under P_i  *)
(* lie in [K_i, K_(i+1)), K_(n+1) being +infinity.                         *)
(***************************************************************************)
C12_Separators ==
  \A id \in InternalIDs :
    LET page == PageNow(id)
        n == Len(page.ents)
    IN /\ StrictlyIncreasing(SepKeys(page))
       /\ n > 0 => \A k \in SubtreeKeys(page.left, numPages) : k < page.ents[1].key
       /\ \A i \in 1..n :
            \A k \in SubtreeKeys(page.ents[i].pageID, numPages) :
              /\ page.ents[i].key <= k
              /\ i < n => k < page.ents[i + 1].key

\* A tree of three levels: an internal page has split and a new root holds
\* the key pushed up.
C12_Witness ==
  /\ pc = "idle" /\ status = "open"
  /\ rootPage \in InternalIDs
  /\ ChildIDs(PageNow(rootPage)) \subseteq InternalIDs
  /\ Cardinality(ChildIDs(PageNow(rootPage))) >= 2
  /\ Cardinality(SubtreeKeys(rootPage, numPages)) = Len(acked)

StoredKeys ==
  LET ids == SortedSeq(LeafIDs \cap TreePages)
      RECURSIVE Cat(_)
      Cat(i) == IF i > Len(ids) THEN <<>> ELSE RecKeys(PageNow(ids[i])) \o Cat(i + 1)
  IN Cat(1)

NoRepeat(keys) ==
  \A i \in 1..Len(keys) : \A j \in 1..Len(keys) : keys[i] = keys[j] => i = j

C14_NoDuplicateKeys ==
  (status = "open" /\ pc = "idle" /\ opened = "create" /\ nopens = 1) =>
    /\ NoRepeat(StoredKeys)
    /\ InOrderTraversal(St).err = "" => NoRepeat(InOrderTraversal(St).keys)

(***************************************************************************)
(* C15: WAL round trip.  For any sequence of successful appends, ReadAll   *)
(* returns exactly the appended entries (op, key, value) in append order,  *)
(* also after the WAL is closed and opened again; ReadAll leaves the log   *)
(* as it is, so a later append lands after the entries already there.      *)
(***************************************************************************)
C15_WalRoundTrip ==
  wal.clean =>
    /\ ReadAll(wal.file) = [entries |-> wal.appended, err |-> ""]
    /\ wal.ret.op = "read" => (wal.ret.err = "" /\ wal.ret.data = wal.appended)

\* A second WAL object on the file has read three entries of different
\* shapes, at least one of them appended through it.
C15_Witness ==
  /\ wal.open /\ wal.nnew = 2 /\ wal.clean /\ ~wal.truncated
  /\ wal.ret.op = "read" /\ Len(wal.ret.data) = 3
  /\ wal.syncs \in 1..2
  /\ Cardinality(SeqSet(wal.ret.data)) = 3

(***************************************************************************)
(* C16: WAL truncate.  After Truncate returns nil the size is 0 and        *)
(* ReadAll returns no entries; the entries appended after the truncate are *)
(* the only ones a later ReadAll returns.                                  *)
(***************************************************************************)
RECURSIVE EntryBytes(_)
EntryBytes(entries) ==
  IF entries = <<>> THEN 0
  ELSE 9 + Len(Head(entries).value) + EntryBytes(Tail(entries))

C16_WalTruncate ==
  /\ (wal.ret.op = "truncate" /\ wal.ret.err = "")
       => /\ Len(wal.file) = 0
          /\ ReadAll(wal.file) = [entries |-> <<>>, err |-> ""]
          /\ wal.syncs = 0
  /\ (wal.truncated /\ wal.clean)
       => /\ Len(wal.file) = EntryBytes(wal.appended)
          /\ wal.ret.op = "read" => wal.ret.data = wal.appended

\* Entries were appended, the log truncated, one more entry appended and
\* read back alone.
C16_Witness ==
  /\ wal.truncated /\ wal.clean /\ wal.nfail = 0
  /\ wal.napp = 3 /\ Len(wal.appended) = 1
  /\ wal.ret.op = "read" /\ wal.ret.data = wal.appended

(***************************************************************************)
(* C18: WAL poisoning.  Once an append has failed at its write or fsync,   *)
(* no later append on the same WAL object reports success.                 *)
(***************************************************************************)
C18_Poisoned ==
  wal.failed => ~(wal.ret.op = "append" /\ wal.ret.err = "")

(***************************************************************************)
(* C17: torn WAL tail.  If the WAL file ends with a partial record (fewer  *)
(* than 9 header bytes, or a whole header whose value bytes are missing or *)
(* short), ReadAll returns an error and no entries, and opening the tree   *)
(* fails: no entry is applied and the WAL is not truncated.                *)
(***************************************************************************)
\* Where the record that is cut short begins, walking the records by their
\* length fields from byte offset i; -1 when the last record is whole.
RECURSIVE PartialRecordAt(_, _)
PartialRecordAt(bytes, i) ==
  IF i = Len(bytes) THEN -1
  ELSE IF Len(bytes) - i < 9 THEN i
  ELSE IF Len(bytes) - i < 9 + Uint32(SubSeq(bytes, i + 6, i + 9)) THEN i
  ELSE PartialRecordAt(bytes, i + 9 + Uint32(SubSeq(bytes, i + 6, i + 9)))

TornTail(bytes) == PartialRecordAt(bytes, 0) >= 0

C17_TornTail ==
  [][(status = "down" /\ lastOp'.op = "recover" /\ nopens' = nopens + 1
        /\ TornTail(walFile))
      => /\ ReadAll(walFile).err # ""
         /\ ReadAll(walFile).entries = <<>>
         /\ lastOp'.err = "failed to read WAL"
         /\ status' = "down"
         /\ opened' = "none"
         /\ walFile' = walFile
         /\ file' = file]_vars

\* An open has failed on a WAL that holds one whole entry and then a whole
\* header without its value.
C17_Witness ==
  /\ lastOp.op = "recover" /\ lastOp.err = "failed to read WAL"
  /\ status = "down"
  /\ PartialRecordAt(walFile, 0) > 0
  /\ Len(walFile) - PartialRecordAt(walFile, 0) = 9

\* The same with a header cut short.
C17_WitnessShortHeader ==
  /\ lastOp.op = "recover" /\ lastOp.err = "failed to read WAL"
  /\ status = "down"
  /\ PartialRecordAt(walFile, 0) > 0
  /\ Len(walFile) - PartialRecordAt(walFile, 0) = 4

(***************************************************************************)
(* C19: the buffer pool is transparent.  For any capacity and any sequence *)
(* of allocate, read and write calls made through the pool, read(pid)      *)
(* returns the bytes of the most recent write(pid), or the pager image if  *)
(* pid was never written, exactly as the same calls made directly on the   *)
(* pager would; a dirty entry is written to the pager before it is         *)
(* dropped, so no write is lost across evictions.                          *)
(***************************************************************************)
\* The calls that wrote page id, oldest first.
WritesOf(id) == SelectSeq(pool.written, LAMBDA w : w.id = id)

C19_Transparent ==
  (pool.made /\ pool.cap >= 1 /\ pool.ret.op = "read") =>
    /\ pool.ret.err = pool.refret.err
    /\ pool.ret.data = pool.refret.data
    /\ WritesOf(pool.ret.id) # <<>>
         => /\ pool.ret.err = ""
            /\ pool.ret.data = WritesOf(pool.ret.id)[Len(WritesOf(pool.ret.id))].data

(***************************************************************************)
(* C20: bounded cache.  After every buffer-pool operation the number of    *)
(* cached entries is at most the capacity; a capacity below 1 asked of     *)
(* NewBufferPool is replaced by 64.                                        *)
(***************************************************************************)
C20_BoundedCache ==
  pool.made =>
    /\ Len(pool.bp.cache) <= pool.bp.capacity
    /\ pool.bp.capacity = IF pool.cap < 1 THEN 64 ELSE pool.cap

\* A full pool has evicted an entry to take another.
C20_Witness ==
  /\ pool.made /\ pool.cap >= 1
  /\ pool.bp.evicts >= 1
  /\ Len(pool.bp.cache) = pool.cap

\* A pool asked for capacity 0 holds more entries than any capacity asked.
C20_WitnessDefault ==
  /\ pool.made /\ pool.cap = 0
  /\ Len(pool.bp.cache) > Capacity

(***************************************************************************)
(* C21  Access accounting: hits + misses equals the number of ReadPage and *)
(* WritePage calls made on the pool since NewBufferPool, a call on a       *)
(* cached page counting one hit and a call on an uncached page one miss.   *)
(***************************************************************************)
C21_AccessAccounting ==
  pool.made => pool.bp.hits + pool.bp.misses = pool.nrw

(***************************************************************************)
(* C22  LRU victim selection: when an insertion into a full pool evicts an *)
(* entry, the evicted page is the cached page whose latest use (a read     *)
(* hit, a write hit or its insertion on a miss) is the oldest; a read hit  *)
(* or write hit makes its entry the most recently used and evicts nothing. *)
(***************************************************************************)
CachedIDs(nodes) == {nodes[i].pageID : i \in 1..Len(nodes)}

LastUse(used, id) ==
  IF \E i \in 1..Len(used) : used[i] = id
  THEN CHOOSE i \in 1..Len(used) :
         used[i] = id /\ \A j \in (i + 1)..Len(used) : used[j] # id
  ELSE 0

C22_LRUVictim ==
  [][(pool.made /\ pool'.made) =>
       /\ pool'.bp.evicts = pool.bp.evicts + 1 =>
            \E v \in CachedIDs(pool.bp.cache) :
              /\ CachedIDs(pool'.bp.cache) =
                   (CachedIDs(pool.bp.cache) \ {v}) \cup {pool'.ret.id}
              /\ LastUse(pool.used, v) > 0
              /\ \A u \in CachedIDs(pool.bp.cache) \ {v} :
                   LastUse(pool.used, v) < LastUse(pool.used, u)
       /\ (/\ pool'.nrw = pool.nrw + 1
           /\ pool'.ret.id \in CachedIDs(pool.bp.cache)) =>
            /\ pool'.ret.err = ""
            /\ pool'.bp.cache[1].pageID = pool'.ret.id
            /\ CachedIDs(pool'.bp.cache) = CachedIDs(pool.bp.cache)
            /\ pool'.bp.evicts = pool.bp.evicts]_vars

\* One eviction so far, and the entry that stays had entered the cache
\* before the victim did: a hit in between had promoted it.
C22_Witness ==
  /\ pool.made /\ pool.bp.evicts = 1 /\ pool.bp.capacity = Capacity
  /\ \E i, j \in 1..Len(pool.used) :
       /\ i < j
       /\ pool.used[i] \in CachedIDs(pool.bp.cache)
       /\ pool.used[j] \notin CachedIDs(pool.bp.cache)

(***************************************************************************)
(* C23  Flush: after Flush returns nil no cached entry is dirty, the pager *)
(* file holds at every cached page's offset the cached bytes, and the      *)
(* bytes last written through the pool to any page are the bytes the pager *)
(* file holds for it (and what the pager's ReadPage returns for a page of  *)
(* the file).                                                              *)
(***************************************************************************)
LastWrite(id) ==
  pool.written[CHOOSE i \in 1..Len(pool.written) :
                 /\ pool.written[i].id = id
                 /\ \A j \in (i + 1)..Len(pool.written) : pool.written[j].id # id].data

C23_Flush ==
  (pool.made /\ pool.ret.op = "flush" /\ pool.ret.err = "") =>
    /\ \A i \in 1..Len(pool.bp.cache) :
         /\ ~pool.bp.cache[i].dirty
         /\ pool.bp.cache[i].pageID + 1 <= Len(pool.bp.file)
         /\ pool.bp.file[pool.bp.cache[i].pageID + 1] = pool.bp.cache[i].data
    /\ \A id \in {pool.written[i].id : i \in 1..Len(pool.written)} :
         /\ id + 1 <= Len(pool.bp.file)
         /\ pool.bp.file[id + 1] = LastWrite(id)
         /\ id < pool.bp.numPages =>
              FilePager_ReadPage(pool.bp, id) =
                [s |-> pool.bp, data |-> LastWrite(id), err |-> ""]

(***************************************************************************)
(* C24  Buffer-pool serialisation: concurrent calls on the pool act as     *)
(* some serial order of them; whenever no AllocatePage call is in          *)
(* progress, the page ids the calls of the two goroutines have returned    *)
(* are pairwise distinct and num_pages has grown by one per call.          *)
(***************************************************************************)
AllocReturns == thr.th[1].rets \o thr.th[2].rets

C24_Serialised ==
  (pool.made /\ \A t \in Threads : thr.th[t].pc = "idle") =>
    /\ \A i, j \in 1..Len(AllocReturns) :
         i # j => AllocReturns[i] # AllocReturns[j]
    /\ pool.bp.numPages = 1 + Len(AllocReturns)

(***************************************************************************)
(* C25  The tree is not reentrant: two goroutines each running one Insert  *)
(* of a distinct key on one tree reach a state where a key whose Insert    *)
(* returned nil is not found by Search or is missing from the ordered      *)
(* scan.  Such a state is reached only when the two calls overlapped: when *)
(* the one began after the other had returned, every key whose Insert      *)
(* returned nil is found and the scan lists them all in order.             *)
(***************************************************************************)
RaceQuiet ==
  /\ status = "open" /\ pc = "idle"
  /\ \A t \in Threads : thr.th[t].pc \in {"idle", "done"}

RaceLookups ==
  /\ \A i \in 1..Len(acked) : Found(acked[i].key, acked[i].value)
  /\ InOrderTraversal(St).err = ""
  /\ InOrderTraversal(St).keys = SortedSeq(KeySet(acked))

C25_NotReentrant == (RaceQuiet /\ ~RaceLookups) => thr.overlap

\* Both goroutines' Inserts have returned nil, as has every Insert before
\* them, and one of the keys is not in the tree.
C25_Witness ==
  /\ RaceQuiet
  /\ \A t \in Threads : thr.th[t].pc = "done"
  /\ acked = logged
  /\ \E i \in 1..Len(acked) : NotFound(acked[i].key)
  /\ InOrderTraversal(St).keys # SortedSeq(KeySet(acked))

(***************************************************************************)
(* C26  Free-page reuse: AllocatePage on a pager whose free list is empty  *)
(* returns the next unused index and grows the file by a page; on a pager  *)
(* whose free list is not empty it returns the page freed last, removes it *)
(* from the free list and leaves num_pages and the file size alone.        *)
(***************************************************************************)
C26_FreePageReuse ==
  [][(pool.made /\ pool'.refret.op = "allocate" /\ pool'.ncalls = pool.ncalls + 1) =>
       /\ pool'.refret.err = ""
       /\ IF pool.ref.freeList = <<>>
          THEN /\ pool'.refret.id = pool.ref.numPages
               /\ pool'.ref.numPages = pool.ref.numPages + 1
               /\ pool'.ref.freeList = <<>>
          ELSE /\ pool'.refret.id = pool.ref.freeList[Len(pool.ref.freeList)]
               /\ pool'.ref.freeList =
                    SubSeq(pool.ref.freeList, 1, Len(pool.ref.freeList) - 1)
               /\ pool'.ref.numPages = pool.ref.numPages
               /\ Len(pool'.ref.file) = Len(pool.ref.file)]_vars

(***************************************************************************)
(* C27  Pager file invariant: after any sequence of pager calls (open,     *)
(* allocate, write, free, read) that each returned, page 0 of the file     *)
(* decodes as the free-page directory, holding the pager's free list, and  *)
(* the file is num_pages pages long.                                       *)
(***************************************************************************)
C27_PagerFile ==
  (pool.made /\ pool.refret.err # Panic) =>
    /\ DeserializeFreeList(pool.ref.file[1]) =
         [freePageIDs |-> pool.ref.freeList, err |-> ""]
    /\ Len(pool.ref.file) = pool.ref.numPages

(***************************************************************************)
(* C28  Error propagation: an Insert during which a step other than the    *)
(* leaf insert fails returns an error; in particular an Insert that moves  *)
(* the root and fails to rewrite the sidecar, which then still names       *)
(* another page, returns an error.                                         *)
(***************************************************************************)
C28_ErrorPropagation ==
  [][(/\ pc = "apply" /\ lastOp'.op = "insert"
      /\ rootPage' # rootPage /\ meta'.rootPage # rootPage')
       => lastOp'.err # ""]_vars

(***************************************************************************)
(* C29  Root pointer persistence: after every Insert that returned nil the *)
(* root page id and the order stored in the sidecar are those of the tree  *)
(* handle.                                                                 *)
(***************************************************************************)
C29_RootPersisted ==
  (status = "open" /\ pc = "idle" /\ lastOp.op = "insert" /\ lastOp.err = "")
    => /\ meta.exists
       /\ meta.rootPage = rootPage
       /\ meta.order = order

(***************************************************************************)
(* C30  Leaf chain grows monotonically: an Insert that returns nil leaves  *)
(* the next_page chain as it was or adds exactly one new leaf R right      *)
(* after the leaf L it split, with R.next = old L.next and L.next = R, the *)
(* other leaves keeping their order; and the chain from the leftmost leaf  *)
(* runs through every leaf of the tree once, in key order, each leaf but   *)
(* the last naming its successor and the last having next_page 0.          *)
(***************************************************************************)
\* The current image of every page of the tree, by page id.
PageAt == [id \in PageIDs |-> PageNow(id)]

RECURSIVE LeftmostLeaf(_, _)
LeftmostLeaf(id, fuel) ==
  IF fuel = 0 \/ id \notin PageIDs THEN 0
  ELSE IF PageAt[id].ptype = PageTypeLeaf THEN id
  ELSE LeftmostLeaf(PageAt[id].left, fuel - 1)

RECURSIVE ChainFrom(_, _)
ChainFrom(id, fuel) ==
  IF fuel = 0 \/ id \notin PageIDs THEN <<>>
  ELSE <<id>> \o ChainFrom(PageAt[id].next, fuel - 1)

\* The leaves of the tree under page id.
RECURSIVE LeavesUnder(_, _)
LeavesUnder(id, fuel) ==
  IF fuel = 0 \/ id \notin PageIDs THEN {}
  ELSE IF PageAt[id].ptype = PageTypeLeaf THEN {id}
  ELSE UNION {LeavesUnder(c, fuel - 1) : c \in ChildIDs(PageAt[id])}

\* The leaf chain: the page ids met from the leftmost leaf along next_page.
LeafChain ==
  IF status = "open" THEN ChainFrom(LeftmostLeaf(rootPage, numPages), numPages)
  ELSE <<>>

\* chain runs through the leaves given once each, in key order.
ChainInKeyOrder(chain, leaves) ==
  /\ SeqSet(chain) = leaves
  /\ \A i, j \in 1..Len(chain) : i # j => chain[i] # chain[j]
  /\ \A i \in 1..(Len(chain) - 1) :
       /\ PageNow(chain[i]).next = chain[i + 1]
       /\ \A a \in KeySet(PageNow(chain[i]).recs) :
            \A b \in KeySet(PageNow(chain[i + 1]).recs) : a < b
  /\ chain # <<>> => PageNow(chain[Len(chain)]).next = 0

\* The image of page id under the cache nodes and file pages given.
ImageIn(nodes, pages, id) ==
  IF CachePos(nodes, id) > 0 THEN nodes[CachePos(nodes, id)].data
  ELSE pages[id + 1]

\* new is old, or old with the page r added right after one of its leaves,
\* which names r where it named its old successor, now named by r.
ChainGrown(old, new, r) ==
  \/ new = old
  \/ \E p \in 1..Len(old) :
       /\ new = SubSeq(old, 1, p) \o <<r>> \o SubSeq(old, p + 1, Len(old))
       /\ new[p + 1] = r
       /\ p + 1 < Len(new) => new[p + 2] = old[p + 1]

C30_LeafChain ==
  [][(status = "open" /\ pc = "apply" /\ pc' = "idle" /\ lastOp'.err = "") =>
       \E old \in {LeafChain} : \E new \in {LeafChain'} :
         /\ ChainInKeyOrder(new, LeavesUnder(rootPage, numPages))'
         /\ ChainGrown(old, new, numPages)
         /\ new # old =>
              \E l \in SeqSet(old) :
                /\ PageNow(l).next # numPages
                /\ ImageIn(cache', file', l).next = numPages
                /\ ImageIn(cache', file', numPages).next = PageNow(l).next]_vars

\* Three leaves or more, one of which was added between two older ones.
C30_Witness ==
  /\ status = "open" /\ pc = "idle" /\ acked = logged
  /\ Len(LeafChain) >= 3
  /\ \E i \in 2..(Len(LeafChain) - 1) :
       LeafChain[i] > LeafChain[i - 1] /\ LeafChain[i] > LeafChain[i + 1]

(***************************************************************************)
(* C31  Leaf split is copy-up: when a successful Insert finds its leaf     *)
(* full (n records), the n+1 records in key order are divided so that the  *)
(* old leaf keeps the first (n+1) div 2 and the new right leaf the rest;   *)
(* both halves are non-empty, every left key is below every right key, and *)
(* the separator sent up is the first key of the right leaf, which stays   *)
(* stored there.                                                           *)
(***************************************************************************)
\* An Insert returned nil and the page it allocated first is a leaf.
LeafSplitStep ==
  /\ status = "open" /\ pc = "apply" /\ pc' = "idle" /\ lastOp'.err = ""
  /\ numPages' > numPages
  /\ ImageIn(cache', file', numPages).ptype = PageTypeLeaf

\* The entries held by the internal pages among the images given.
SeparatorsOf(images) ==
  UNION {SeqSet(images[id].ents) :
           id \in {i \in DOMAIN images : images[i].ptype = PageTypeInternal}}

\* old was split into left and right (the page r) by the insert of rec;
\* after holds the images of the pages once Insert has returned.
CopyUp(old, rec, left, right, r, after) ==
  /\ Leaf_InsertRecord(old, rec).err # ""
  /\ Len(left.recs) + Len(right.recs) = Len(old.recs) + 1
  /\ SeqSet(left.recs) \cup SeqSet(right.recs) = SeqSet(old.recs) \cup {rec}
  /\ StrictlyIncreasing(RecKeys(left) \o RecKeys(right))
  /\ Len(left.recs) = (Len(old.recs) + 1) \div 2
  /\ left.recs # <<>> /\ right.recs # <<>>
  /\ \A a \in KeySet(left.recs) : \A b \in KeySet(right.recs) : a < b
  /\ \E e \in SeparatorsOf(after) :
       /\ e.key = right.recs[1].key
       /\ e.pageID = r \/ after[e.pageID].left = r

C31_CopyUp ==
  [][LeafSplitStep =>
       \E before \in {PageAt} : \E after \in {PageAt'} :
         \E l \in {id \in DOMAIN before : before[id].ptype = PageTypeLeaf} :
           /\ before[l].next # numPages
           /\ after[l].next = numPages
           /\ CopyUp(before[l], pending, after[l], after[numPages], numPages, after)
           /\ \A e \in SeparatorsOf(before) :
                e.key # after[numPages].recs[1].key]_vars

\* The last Insert split a leaf: its key lies in a leaf with one record or
\* in that leaf's successor, a newer page with two.
C31_Witness ==
  /\ status = "open" /\ pc = "idle"
  /\ lastOp.op = "insert" /\ lastOp.err = ""
  /\ \E l \in LeafIDs :
       /\ PageNow(l).next = numPages - 1 \/ PageNow(l).next = numPages - 2
       /\ PageNow(l).next > l
       /\ Len(PageNow(l).recs) = 1
       /\ Len(PageNow(PageNow(l).next).recs) = 2
       /\ lastOp.key \in KeySet(PageNow(l).recs)
                           \cup KeySet(PageNow(PageNow(l).next).recs)

(***************************************************************************)
(* C32  Internal split is push-up: when a successful Insert hands a full   *)
(* internal page one more entry, the entries in key order are cut around   *)
(* the middle one e_m: the old page keeps its leftmost pointer and the     *)
(* entries before e_m, the new right page gets e_m's child as leftmost     *)
(* pointer and the entries after e_m, the key of e_m is in neither page    *)
(* and goes to the parent together with the right page, no entry or child  *)
(* is lost or repeated, and every child of the right page names it as its  *)
(* parent.                                                                 *)
(***************************************************************************)
\* The pages an Insert that returned nil added as right halves of internal
\* pages: new internal pages other than a new root.
NewRightInternals(before, after) ==
  {r \in DOMAIN after \ DOMAIN before :
     after[r].ptype = PageTypeInternal /\ r # rootPage'}

\* old (full) was split into left and right (the page r); after holds the
\* images of the pages once Insert has returned and fresh the pages it added.
PushUp(old, left, right, r, after, fresh) ==
  /\ Len(old.ents) >= maxEntries
  /\ left.left = old.left
  /\ \E up \in SeparatorsOf(after) :
       /\ up.pageID = r \/ after[up.pageID].left = r
       /\ up.key \notin {e.key : e \in SeqSet(left.ents) \cup SeqSet(right.ents)}
       /\ \E all \in {left.ents \o <<[key |-> up.key, pageID |-> right.left]>>
                        \o right.ents} :
            /\ Len(all) = Len(old.ents) + 1
            /\ StrictlyIncreasing([i \in 1..Len(all) |-> all[i].key])
            /\ \E new \in SeqSet(all) :
                 /\ new.pageID \in fresh
                 /\ SeqSet(all) = SeqSet(old.ents) \cup {new}
            /\ Len(left.ents) = Len(all) \div 2
            /\ Cardinality(ChildIDs(left) \cup ChildIDs(right)) = Len(all) + 1
  /\ \A c \in ChildIDs(right) : after[c].parent = r

InternalSplitStep ==
  /\ status = "open" /\ pc = "apply" /\ pc' = "idle" /\ lastOp'.err = ""
  /\ NewRightInternals(PageAt, PageAt') # {}

C32_PushUp ==
  [][InternalSplitStep =>
       \E before \in {PageAt} : \E after \in {PageAt'} :
         \A r \in NewRightInternals(before, after) :
           \E p \in {id \in DOMAIN before : before[id].ptype = PageTypeInternal} :
             PushUp(before[p], after[p], after[r], r, after,
                    DOMAIN after \ DOMAIN before)]_vars

\* The last Insert split the root, an internal page: the page added just
\* before the new root is an internal page and the root's right child.
C32_Witness ==
  /\ status = "open" /\ pc = "idle"
  /\ lastOp.op = "insert" /\ lastOp.err = ""
  /\ numPages >= 3
  /\ rootPage = numPages - 1
  /\ PageNow(numPages - 2).ptype = PageTypeInternal
  /\ PageNow(rootPage).ents[1].pageID = numPages - 2
  /\ PageNow(PageNow(rootPage).left).ptype = PageTypeInternal

(***************************************************************************)
(* C33  search_child agrees with the reference lookup: on an internal page *)
(* with leftmost pointer P0 and strictly increasing entries (K1,P1) ..     *)
(* (Kn,Pn), SearchChild(key) returns P0 when n = 0 or key < K1, otherwise  *)
(* the child of the last entry with Ki <= key; and it never leaves by the  *)
(* fallback returns (the leftmost pointer at an index above 0, or after    *)
(* the loop).                                                              *)
(***************************************************************************)
ReferenceChild(page, key) ==
  LET atOrBelow == {i \in 1..Len(page.ents) : page.ents[i].key <= key}
  IN IF atOrBelow = {} THEN page.left
     ELSE page.ents[CHOOSE i \in atOrBelow : \A j \in atOrBelow : j <= i].pageID

C33_SearchChild ==
  (ipage.op = "search" /\ StrictlyIncreasing(SepKeys(ipage.page))) =>
    /\ ipage.err = ""
    /\ ipage.id = ReferenceChild(ipage.page, ipage.key)
    /\ ipage.stmt \notin {"below a later key", "after the loop"}

\* A search on a page of two entries with distinct children that ended at
\* the last entry, for a key equal to its separator.
C33_Witness ==
  /\ ipage.op = "search"
  /\ Len(ipage.page.ents) = 2
  /\ StrictlyIncreasing(SepKeys(ipage.page))
  /\ ipage.page.ents[1].pageID # ipage.page.ents[2].pageID
  /\ ipage.page.left # ipage.page.ents[2].pageID
  /\ ipage.key = ipage.page.ents[2].key
  /\ ipage.id = ipage.page.ents[2].pageID

(***************************************************************************)
(* C34  Map and list stay in lockstep: after every buffer-pool operation   *)
(* the page ids of the nodes linked between the head and tail sentinels    *)
(* are exactly the keys of the cache map, each page id is in the list      *)
(* once, and the forward and backward links agree.                         *)
(***************************************************************************)
\* The nodes met from node n along next (forward) or prev, up to the
\* sentinel at the other end.
RECURSIVE Walk(_, _, _, _, _)
Walk(nodes, n, forward, stop, fuel) ==
  IF fuel = 0 \/ n = stop \/ n \notin DOMAIN nodes THEN <<>>
  ELSE <<n>> \o Walk(nodes, IF forward THEN nodes[n].next ELSE nodes[n].prev,
                     forward, stop, fuel - 1)

Reversed(seq) == [i \in 1..Len(seq) |-> seq[Len(seq) + 1 - i]]

Lockstep(l) ==
  \E fwd \in {Walk(l.node, l.node[l.head].next, TRUE, l.tail,
                   Cardinality(DOMAIN l.node))} :
  \E bwd \in {Walk(l.node, l.node[l.tail].prev, FALSE, l.head,
                   Cardinality(DOMAIN l.node))} :
    /\ {l.node[n].pageID : n \in SeqSet(fwd)} = DOMAIN l.cache
    /\ Len(fwd) = Cardinality(DOMAIN l.cache)
    /\ \A i \in 1..Len(fwd) : l.cache[l.node[fwd[i]].pageID] = fwd[i]
    /\ bwd = Reversed(fwd)
    /\ \A n \in SeqSet(fwd) \cup {l.head} : l.node[l.node[n].next].prev = n
    /\ \A n \in SeqSet(fwd) \cup {l.tail} : l.node[l.node[n].prev].next = n

C34_Lockstep == pool.made => Lockstep(pool.links)

\* A full cache of two pages after an eviction and a hit that moved the
\* older of the two to the head.
C34_Witness ==
  /\ pool.made /\ pool.bp.evicts > 0
  /\ Cardinality(DOMAIN pool.links.cache) = 2
  /\ pool.ret.op \in {"read", "write"} /\ pool.ret.err = ""
  /\ pool.bp.hits > 0
  /\ pool.links.node[pool.links.node[pool.links.head].next].pageID = pool.ret.id

(***************************************************************************)
(* C35  Recovery does not drop durability: when an open has replayed the   *)
(* WAL and truncated it, every page the replay changed is in the pager     *)
(* file, so that the files alone (a stop right after the open, then        *)
(* another open) still give Get(k) = v for every entry the WAL held.       *)
(***************************************************************************)
C35_RecoveryDurable ==
  [][(status = "down" /\ lastOp'.op = "recover" /\ lastOp'.err = ""
        /\ ReadAll(walFile).err = "") =>
       \E entries \in {WalEntries} : \E disk \in {OnDisk'} :
         \A i \in 1..Len(entries) :
           entries[i].op = OpInsert =>
             FoundIn(disk, entries[i].key, entries[i].value)]_vars

(***************************************************************************)
(* C36  On-disk root is always a tree page: from the moment the tree is    *)
(* created, whenever the process may stop, the pager file's image of the   *)
(* page the sidecar names as root is a leaf or an internal page, and no    *)
(* open ends in the panic of NewLeafPage or NewInternalPage.               *)
(***************************************************************************)
C36_OnDiskRoot ==
  /\ (status = "open" /\ meta.exists)
       => /\ meta.rootPage < Len(file)
          /\ file[meta.rootPage + 1].ptype \in {PageTypeLeaf, PageTypeInternal}
  /\ lastOp.op = "recover" => lastOp.err # Panic

(***************************************************************************)
(* C37  Failed inserts are atomic: when Insert returns an error, whether   *)
(* the WAL append failed or a later step did, the WAL file, every page,    *)
(* the number of pages and the root are what they were before the call.    *)
(***************************************************************************)
\* The WAL file as it was when the Insert under way was called.
WalBeforeCall ==
  IF pc = "apply"
  THEN SubSeq(walFile, 1,
              Len(walFile) - Len(serializeEntry([op |-> OpInsert, key |-> pending.key,
                                                 value |-> pending.value])))
  ELSE walFile

C37_FailedInsertAtomic ==
  [][(status = "open" /\ lastOp'.op = "insert" /\ lastOp'.err \notin {"", Panic}) =>
       /\ walFile' = WalBeforeCall
       /\ numPages' = numPages
       /\ rootPage' = rootPage
       /\ meta' = meta
       /\ \A id \in 0..(numPages - 1) : ImageIn(cache', file', id) = PageNow(id)]_vars

\* C38: closing a running engine, with every I/O step succeeding, returns no
\* error: each file handle is closed exactly once, so no Close of a handle
\* reports that the handle was closed before.
C38_CloseClean == lastOp.op = "close" => lastOp.err = ""

(***************************************************************************)
(* C39  The tree stays balanced: while the engine runs, every path from    *)
(* the root to a leaf passes through the same number of internal pages;    *)
(* and a step of a running engine leaves the height as it is unless it     *)
(* creates a new root, and then the height grows by exactly one.           *)
(***************************************************************************)
\* The numbers of internal pages passed on the paths from page id down to
\* the leaves under it, depth of them already passed.
RECURSIVE LeafDepths(_, _, _, _)
LeafDepths(pages, id, depth, fuel) ==
  IF fuel = 0 \/ id \notin DOMAIN pages THEN {-1}
  ELSE IF pages[id].ptype = PageTypeLeaf THEN {depth}
  ELSE IF pages[id].ptype # PageTypeInternal THEN {-1}
  ELSE UNION {LeafDepths(pages, c, depth + 1, fuel - 1) : c \in ChildIDs(pages[id])}

\* The depths of the leaves under root.
DepthsUnder(pages, root) == LeafDepths(pages, root, 0, Cardinality(DOMAIN pages))

\* All leaves under root lie at depth h.
BalancedAt(pages, root, h) == DepthsUnder(pages, root) = {h}

C39_Balanced ==
  /\ [](status = "open" =>
          \E d \in {DepthsUnder(PageAt, rootPage)} :
            Cardinality(d) = 1 /\ d \subseteq 0..numPages)
  /\ [][(status = "open" /\ status' = "open") =>
          \E d \in {DepthsUnder(PageAt, rootPage)} :
          \E e \in {DepthsUnder(PageAt', rootPage')} :
            IF rootPage' # rootPage
            THEN e = {h + 1 : h \in d}
            ELSE e = d]_vars

\* The tree has grown twice: the root stands two internal levels above the
\* leaves, after an Insert that split an internal root.
C39_Witness ==
  /\ status = "open" /\ pc = "idle"
  /\ lastOp.op = "insert" /\ lastOp.err = ""
  /\ rootPage = numPages - 1
  /\ BalancedAt(PageAt, rootPage, 2)

(***************************************************************************)
(* C40  Clean entries are coherent with disk: after any sequence of        *)
(* AllocatePage, ReadPage, WritePage and Flush calls on the pool, every    *)
(* cached entry that is not dirty holds the bytes the pager file holds for *)
(* its page, also for a page written through the pool before it was        *)
(* allocated.                                                              *)
(***************************************************************************)
C40_CleanCoherent ==
  pool.made =>
    \A i \in 1..Len(pool.bp.cache) :
      ~pool.bp.cache[i].dirty =>
        /\ pool.bp.cache[i].pageID + 1 <= Len(pool.bp.file)
        /\ pool.bp.file[pool.bp.cache[i].pageID + 1] = pool.bp.cache[i].data

====
